---- MODULE Spec2Model ----
(***************************************************************************)
(* Model of the TIA Portal block converters (MCP_Server/lib/converters):   *)
(* the SCL line lexer and StructuredText generator of json_to_xml.py, the  *)
(* code and interface extractors of xml_to_json.py, the text parser of     *)
(* scl_to_json.py and the conversion entry points of                       *)
(* src/handlers/conversion_handlers.py.                                    *)
(*                                                                         *)
(* Text is modelled as a sequence of one-character strings, so that every  *)
(* scan, strip, escape and parse is computed character by character.       *)
(***************************************************************************)
EXTENDS Integers, Sequences, FiniteSets, TLC

VARIABLES
    line,          \* the line handed to tokenize_scl_line
    tokens,        \* the token list it returned
    code_lines,    \* the code body handed to create_structured_text_xml
    uid_counter,   \* TIAXMLGenerator.uid_counter of the shared generator
    structured_text, \* the StructuredText element last generated (node list)
    extracted,     \* the code lines last extracted from structured_text
    generations,   \* number of generations run on the shared generator
    source,        \* the source document of a conversion (text, canonical or XML)
    json_data,     \* the canonical document a conversion produced
    xml_doc,       \* the XML document a conversion produced
    result,        \* outcome of the last conversion entry point
    conversions,   \* number of conversions run on the document
    entry,         \* the conversion entry point that ran last
    scl_text,   \* the SCL text a conversion reads or wrote
    callers,       \* the calls in progress on the shared generator, by caller
    sessions,      \* SessionManager.sessions: last_activity by session id
    lock,          \* SessionManager._lock: the task holding it, 0 when free
    tasks,         \* the coroutines calling the SessionManager, by task
    now,           \* time.time()
    created,       \* number of session ids handed out
    pc             \* position in the conversion pipeline

vars == <<line, tokens, code_lines, uid_counter, structured_text, extracted,
          generations, source, json_data, xml_doc, result, conversions, entry,
          scl_text, callers, sessions, lock, tasks, now, created, pc>>

(***************************************************************************)
(* Characters and strings                                                  *)
(***************************************************************************)

\* A string literal as the sequence of its characters.
Chars(s) == [i \in 1..Len(s) |-> SubSeq(s, i, i)]

LowerLetters == Chars("abcdefghijklmnopqrstuvwxyz")
UpperLetters == Chars("ABCDEFGHIJKLMNOPQRSTUVWXYZ")
DigitChars == Chars("0123456789")

Range(s) == {s[i] : i \in DOMAIN s}

isspace(c) == c \in {" ", "\t", "\n", "\r", "\f"}
isdigit(c) == c \in Range(DigitChars)
isalpha(c) == c \in Range(LowerLetters) \cup Range(UpperLetters)
isalnum(c) == isalpha(c) \/ isdigit(c)

\* str.upper() on one character and on a string.
UpperChar(c) ==
    IF c \in Range(LowerLetters)
    THEN UpperLetters[CHOOSE k \in DOMAIN LowerLetters : LowerLetters[k] = c]
    ELSE c
upper(s) == [i \in DOMAIN s |-> UpperChar(s[i])]

\* str.lower() on one character and on a string.
LowerChar(c) ==
    IF c \in Range(UpperLetters)
    THEN LowerLetters[CHOOSE k \in DOMAIN UpperLetters : UpperLetters[k] = c]
    ELSE c
lower(s) == [i \in DOMAIN s |-> LowerChar(s[i])]

\* s[i:] with a one-based i.
From(s, i) == SubSeq(s, i, Len(s))

\* s[i:].startswith(p) with a one-based i.
StartsWithAt(s, i, p) ==
    /\ i + Len(p) - 1 <= Len(s)
    /\ SubSeq(s, i, i + Len(p) - 1) = p

startswith(s, p) == StartsWithAt(s, 1, p)
endswith(s, p) == Len(p) <= Len(s) /\ SubSeq(s, Len(s) - Len(p) + 1, Len(s)) = p

\* p in s
Contains(s, p) == \E i \in 1..(Len(s) + 1) : StartsWithAt(s, i, p)

\* s.find(p, i): the least one-based position >= i at which p occurs, 0 if none.
FindFrom(s, p, i) ==
    IF \E j \in i..(Len(s) + 1) : StartsWithAt(s, j, p)
    THEN CHOOSE j \in i..(Len(s) + 1) :
            /\ StartsWithAt(s, j, p)
            /\ \A k \in i..(j - 1) : ~StartsWithAt(s, k, p)
    ELSE 0
find(s, p) == FindFrom(s, p, 1)

\* The end (exclusive) of the maximal run of characters satisfying P from i.
RunEnd(s, i, P(_)) ==
    CHOOSE j \in i..(Len(s) + 1) :
        /\ \A k \in i..(j - 1) : P(s[k])
        /\ (j = Len(s) + 1 \/ ~P(s[j]))

\* A value computed once and used under a name: Body applied to the value.
Bind(value, Body(_)) == Body(value)

\* str.lstrip(), str.rstrip(), str.strip()
lstrip(s) == From(s, RunEnd(s, 1, isspace))
rstrip(s) ==
    LET last == IF \E k \in DOMAIN s : ~isspace(s[k])
                THEN CHOOSE k \in DOMAIN s :
                        ~isspace(s[k]) /\ \A m \in (k + 1)..Len(s) : isspace(s[m])
                ELSE 0
    IN SubSeq(s, 1, last)
strip(s) == lstrip(rstrip(s))

\* " " * n
Spaces(n) == [i \in 1..n |-> " "]

\* "".join(parts)
RECURSIVE join(_)
join(parts) == IF parts = <<>> THEN <<>> ELSE Head(parts) \o join(Tail(parts))

\* str(n) for n >= 0: the decimal digits of n.
RECURSIVE IntToStr(_)
IntToStr(n) ==
    IF n < 10 THEN <<DigitChars[n + 1]>>
    ELSE Append(IntToStr(n \div 10), DigitChars[(n % 10) + 1])

DigitValue(c) == (CHOOSE k \in DOMAIN DigitChars : DigitChars[k] = c) - 1

\* int(s): the value of a non-empty string of decimal digits (surrounding blanks
\* allowed); ValueError, rendered as -1, for anything else the model can hold.
RECURSIVE DigitsToInt(_)
DigitsToInt(s) ==
    IF s = <<>> THEN 0
    ELSE 10 * DigitsToInt(SubSeq(s, 1, Len(s) - 1)) + DigitValue(s[Len(s)])
StrToInt(s) ==
    Bind(strip(s),
         LAMBDA t : IF t # <<>> /\ \A k \in DOMAIN t : isdigit(t[k])
                    THEN DigitsToInt(t) ELSE -1)

\* s.replace(c, rep) for a single character c.
RECURSIVE replace(_, _, _)
replace(s, c, rep) ==
    IF s = <<>> THEN <<>>
    ELSE (IF Head(s) = c THEN rep ELSE <<Head(s)>>) \o replace(Tail(s), c, rep)

\* s.split(sep) for a single character sep.
RECURSIVE split(_, _)
split(s, sep) ==
    Bind(find(s, <<sep>>),
         LAMBDA p : IF p = 0 THEN <<s>>
                    ELSE <<SubSeq(s, 1, p - 1)>> \o split(From(s, p + 1), sep))

(***************************************************************************)
(* json_to_xml.py: TIAXMLGenerator                                         *)
(***************************************************************************)

\* The operator table of __init__, in the order of the source.
scl_operators ==
    << Chars(":="), Chars("="), Chars("<>"), Chars(">"), Chars("<"), Chars(">="),
       Chars("<="), Chars("+"), Chars("-"), Chars("*"), Chars("/"), Chars("MOD"),
       Chars("AND"), Chars("OR"), Chars("XOR"), Chars("NOT"), Chars("&"),
       Chars("THEN"), Chars("ELSE"), Chars("ELSEIF"),
       Chars("DO"), Chars("TO"), Chars("BY"), Chars(";"), Chars("("), Chars(")"),
       Chars("["), Chars("]"), Chars(","), Chars("."), Chars(":") >>

\* The keyword table of __init__.
scl_keywords ==
    { Chars("IF"), Chars("THEN"), Chars("ELSE"), Chars("ELSEIF"), Chars("END_IF"),
      Chars("CASE"), Chars("OF"), Chars("END_CASE"),
      Chars("FOR"), Chars("TO"), Chars("BY"), Chars("DO"), Chars("END_FOR"),
      Chars("WHILE"), Chars("END_WHILE"),
      Chars("REPEAT"), Chars("UNTIL"), Chars("END_REPEAT"), Chars("EXIT"),
      Chars("CONTINUE"), Chars("RETURN"),
      Chars("TRUE"), Chars("FALSE"), Chars("AND"), Chars("OR"), Chars("XOR"),
      Chars("NOT"), Chars("REGION"), Chars("END_REGION"),
      Chars("ABS"), Chars("MIN"), Chars("MAX") }

Token(type, value) == [type |-> type, value |-> value]

\* The operators of the table that line[i:] starts with.
MatchingOperators(ln, i) ==
    {k \in DOMAIN scl_operators : StartsWithAt(ln, i, scl_operators[k])}

\* The first operator that matches in sorted(scl_operators, key=len, reverse=True):
\* the longest one (two operators of one length cannot both be a prefix).
FirstOperator(ln, i) ==
    LET ms == MatchingOperators(ln, i)
        k == CHOOSE k \in ms : \A m \in ms : Len(scl_operators[m]) <= Len(scl_operators[k])
    IN scl_operators[k]

IsTimePrefix(ln, i) ==
    UpperChar(ln[i]) = "T" /\ i + 1 <= Len(ln) /\ ln[i + 1] = "#"

IsTimeChar(c) == isalnum(c) \/ c \in {".", "_"}
IsNumberChar(c) == isdigit(c) \/ c = "."
IsIdentChar(c) == isalnum(c) \/ c = "_"

\* The token the identifier branch appends for an identifier.
IdentifierToken(identifier) ==
    IF upper(identifier) \in scl_keywords
    THEN IF upper(identifier) \in {Chars("TRUE"), Chars("FALSE")}
         THEN Token("CONSTANT", upper(identifier))
         ELSE Token("KEYWORD", upper(identifier))
    ELSE Token("VARIABLE", identifier)

\* A scan step whose white-space branch consumes nothing.
ScanStepStuck(ln, i) ==
    IF isspace(ln[i]) THEN [token |-> Token("WHITESPACE", IntToStr(0)), next |-> i]
    ELSE [token |-> Token("UNKNOWN", <<ln[i]>>), next |-> i + 1]

\* One iteration of the scan loop at index i of the (stripped) line:
\* the token appended and the index after it.
ScanStep(ln, i) ==
    IF isspace(ln[i])
    THEN LET j == RunEnd(ln, i, isspace)
         IN [token |-> Token("WHITESPACE", IntToStr(j - i)), next |-> j]
    ELSE IF MatchingOperators(ln, i) # {}
    THEN LET op == FirstOperator(ln, i)
         IN [token |-> Token("OPERATOR", op), next |-> i + Len(op)]
    ELSE IF isdigit(ln[i]) \/ IsTimePrefix(ln, i)
    THEN IF IsTimePrefix(ln, i)
         THEN LET j == RunEnd(ln, i + 2, IsTimeChar)
              IN [token |-> Token("CONSTANT", Chars("T#") \o SubSeq(ln, i + 2, j - 1)),
                  next |-> j]
         ELSE LET j == RunEnd(ln, i, IsNumberChar)
              IN [token |-> Token("CONSTANT", SubSeq(ln, i, j - 1)), next |-> j]
    ELSE IF ln[i] \in {"\"", "'"}
    THEN LET quote == ln[i]
             NotQuote(c) == c # quote
             j == RunEnd(ln, i + 1, NotQuote)
         IN IF j <= Len(ln)
            THEN [token |-> Token("CONSTANT", SubSeq(ln, i, j)), next |-> j + 1]
            ELSE [token |-> Token("CONSTANT", SubSeq(ln, i, j - 1)), next |-> j]
    ELSE IF isalpha(ln[i]) \/ ln[i] = "_" \/ ln[i] = "#"
    THEN LET s == IF ln[i] = "#" THEN i + 1 ELSE i
             j == RunEnd(ln, s, IsIdentChar)
         IN [token |-> IdentifierToken(SubSeq(ln, i, j - 1)), next |-> j]
    ELSE [token |-> Token("UNKNOWN", <<ln[i]>>), next |-> i + 1]

RECURSIVE ScanFrom(_, _, _)
ScanFrom(ln, i, acc) ==
    IF i > Len(ln) THEN acc
    ELSE Bind(ScanStep(ln, i),
              LAMBDA st : ScanFrom(ln, st.next, Append(acc, st.token)))

\* The line tokenize_scl_line scans: line = line.strip()
ScannedLine(ln) == strip(ln)

\* TIAXMLGenerator.tokenize_scl_line
tokenize_scl_line(ln) ==
    Bind(ScannedLine(ln),
         LAMBDA stripped : IF stripped = <<>> THEN <<>> ELSE ScanFrom(stripped, 1, <<>>))

(***************************************************************************)
(* XML elements.  An element is a record: tag is the local name, ns the    *)
(* namespace ("" for none), attrs the attribute map, children the child    *)
(* elements in document order, text the element text.                      *)
(***************************************************************************)

Elem(tag, ns, attrs, children, text) ==
    [tag |-> tag, ns |-> ns, attrs |-> attrs, children |-> children, text |-> text]

NoAttrs == [a \in {} |-> <<>>]

\* The value find() returns for "not found".
NoElem == Elem("", "", NoAttrs, <<>>, <<>>)

\* element.get(name, default)
Attr(e, name, default) == IF name \in DOMAIN e.attrs THEN e.attrs[name] ELSE default

STNamespace == "http://www.siemens.com/automation/Openness/SW/NetworkSource/StructuredText/v3"
InterfaceNamespace == "http://www.siemens.com/automation/Openness/SW/Interface/v5"

\* The generator's counter after TIAXMLGenerator.__init__.
InitialUid == 1
\* The start value json_to_xml and ConversionHandlers.create_structured_text_xml
\* reset the counter to.
UidStart == 21

\* A generator whose counter does not advance.
get_next_uid_stuck(counter) == [uid |-> IntToStr(counter), counter |-> counter]

\* TIAXMLGenerator.get_next_uid: the UId handed out and the counter after it.
get_next_uid(counter) == [uid |-> IntToStr(counter), counter |-> counter + 1]

\* TIAXMLGenerator.reset_uid_counter
reset_uid_counter(start_value) == start_value

\* TIAXMLGenerator.escape_xml
escape_xml(text) ==
    replace(replace(replace(replace(replace(text,
        "&", Chars("&amp;")), "<", Chars("&lt;")), ">", Chars("&gt;")),
        "\"", Chars("&quot;")), "'", Chars("&apos;"))

\* The scope and component name the VARIABLE branch derives from a token value.
VariableScope(value) ==
    IF startswith(value, <<"#">>)
    THEN [scope |-> Chars("LocalVariable"), name |-> From(value, 2)]
    ELSE IF startswith(value, <<"\"">>) /\ endswith(value, <<"\"">>)
    THEN [scope |-> Chars("GlobalVariable"), name |-> SubSeq(value, 2, Len(value) - 1)]
    ELSE [scope |-> Chars("LocalVariable"), name |-> value]

\* The scope the CONSTANT branch gives a token value.
ConstantScope(value) ==
    IF startswith(value, Chars("T#")) THEN Chars("TypedConstant")
    ELSE Chars("LiteralConstant")

\* The body of the token loop of create_structured_text_xml for one token:
\* the elements appended (attribute values and text as written to the file,
\* escaped) and the counter afterwards.
TokenNodes(tok, counter) ==
    IF tok.type = "WHITESPACE"
    THEN LET u == get_next_uid(counter)
         IN [nodes |-> << IF tok.value = Chars("1")
                          THEN Elem("Blank", STNamespace, [UId |-> u.uid], <<>>, <<>>)
                          ELSE Elem("Blank", STNamespace,
                                    [Num |-> tok.value, UId |-> u.uid], <<>>, <<>>) >>,
             counter |-> u.counter]
    ELSE IF tok.type \in {"KEYWORD", "OPERATOR"}
    THEN LET u == get_next_uid(counter)
         IN [nodes |-> << Elem("Token", STNamespace,
                               [Text |-> escape_xml(tok.value), UId |-> u.uid],
                               <<>>, <<>>) >>,
             counter |-> u.counter]
    ELSE IF tok.type = "VARIABLE"
    THEN LET v == VariableScope(tok.value)
             access == get_next_uid(counter)
             symbol == get_next_uid(access.counter)
             component == get_next_uid(symbol.counter)
         IN [nodes |-> << Elem("Access", STNamespace,
                               [Scope |-> v.scope, UId |-> access.uid],
                               << Elem("Symbol", STNamespace, [UId |-> symbol.uid],
                                       << Elem("Component", STNamespace,
                                               [Name |-> escape_xml(v.name),
                                                UId |-> component.uid],
                                               <<>>, <<>>) >>,
                                       <<>>) >>,
                               <<>>) >>,
             counter |-> component.counter]
    ELSE IF tok.type = "CONSTANT"
    THEN LET access == get_next_uid(counter)
             constant == get_next_uid(access.counter)
             value == get_next_uid(constant.counter)
         IN [nodes |-> << Elem("Access", STNamespace,
                               [Scope |-> ConstantScope(tok.value), UId |-> access.uid],
                               << Elem("Constant", STNamespace, [UId |-> constant.uid],
                                       << Elem("ConstantValue", STNamespace,
                                               [UId |-> value.uid], <<>>,
                                               escape_xml(tok.value)) >>,
                                       <<>>) >>,
                               <<>>) >>,
             counter |-> value.counter]
    ELSE LET u == get_next_uid(counter)
         IN [nodes |-> << Elem("Token", STNamespace,
                               [Text |-> escape_xml(tok.value), UId |-> u.uid],
                               <<>>, <<>>) >>,
             counter |-> u.counter]

RECURSIVE TokensToNodes(_, _, _)
TokensToNodes(toks, counter, acc) ==
    IF toks = <<>> THEN [nodes |-> acc, counter |-> counter]
    ELSE Bind(TokenNodes(Head(toks), counter),
              LAMBDA r : TokensToNodes(Tail(toks), r.counter, acc \o r.nodes))

\* The NewLine create_structured_text_xml puts before every line but the
\* first: the elements and the counter after it.
NewLineNode(idx, counter, acc) ==
    IF idx > 1
    THEN Bind(get_next_uid(counter),
              LAMBDA nl : [nodes |-> Append(acc, Elem("NewLine", STNamespace,
                                                      [UId |-> nl.uid], <<>>, <<>>)),
                           counter |-> nl.counter])
    ELSE [nodes |-> acc, counter |-> counter]

\* The line loop of create_structured_text_xml from line index idx (one-based).
RECURSIVE LinesToNodes(_, _, _, _)
LinesToNodes(lines, idx, counter, acc) ==
    IF idx > Len(lines) THEN [nodes |-> acc, counter |-> counter]
    ELSE Bind(NewLineNode(idx, counter, acc),
              LAMBDA nl :
                IF strip(lines[idx]) = <<>>
                THEN LinesToNodes(lines, idx + 1, nl.counter, nl.nodes)
                ELSE Bind(TokensToNodes(tokenize_scl_line(lines[idx]),
                                        nl.counter, nl.nodes),
                          LAMBDA r : LinesToNodes(lines, idx + 1, r.counter, r.nodes)))

\* TIAXMLGenerator.create_structured_text_xml: the StructuredText element written
\* and the generator's counter afterwards.
create_structured_text_xml(lines, counter) ==
    Bind(LinesToNodes(lines, 1, counter, <<>>),
         LAMBDA r : [xml |-> Elem("StructuredText", STNamespace, NoAttrs, r.nodes, <<>>),
                     counter |-> r.counter])

(***************************************************************************)
(* xml.etree.ElementTree: reading a written document back                  *)
(***************************************************************************)

Entities ==
    << [ref |-> Chars("&amp;"), char |-> "&"], [ref |-> Chars("&lt;"), char |-> "<"],
       [ref |-> Chars("&gt;"), char |-> ">"], [ref |-> Chars("&quot;"), char |-> "\""],
       [ref |-> Chars("&apos;"), char |-> "'"] >>

\* Character data as the parser returns it: entity references replaced.
RECURSIVE unescape_xml(_)
unescape_xml(s) ==
    IF s = <<>> THEN <<>>
    ELSE IF \E k \in DOMAIN Entities : startswith(s, Entities[k].ref)
    THEN LET k == CHOOSE k \in DOMAIN Entities : startswith(s, Entities[k].ref)
         IN <<Entities[k].char>> \o unescape_xml(From(s, Len(Entities[k].ref) + 1))
    ELSE <<Head(s)>> \o unescape_xml(Tail(s))

\* Attribute-value normalisation: literal white space becomes a space.
AttrValue(s) ==
    LET u == [i \in DOMAIN s |-> IF s[i] \in {"\t", "\n", "\r"} THEN " " ELSE s[i]]
    IN unescape_xml(u)

\* ET.parse on a written element.
RECURSIVE XmlParse(_)
XmlParse(e) ==
    Elem(e.tag, e.ns,
         [a \in DOMAIN e.attrs |-> AttrValue(e.attrs[a])],
         [i \in DOMAIN e.children |-> XmlParse(e.children[i])],
         unescape_xml(e.text))

\* element.findall(".//*"): every descendant in document order.
RECURSIVE Descendants(_)
Descendants(e) ==
    join([i \in DOMAIN e.children |-> <<e.children[i]>> \o Descendants(e.children[i])])

\* The first element of a list that satisfies P, NoElem if none.
FirstWhere(elems, P(_)) ==
    IF \E i \in DOMAIN elems : P(elems[i])
    THEN elems[CHOOSE i \in DOMAIN elems : P(elems[i]) /\ \A k \in 1..(i - 1) : ~P(elems[k])]
    ELSE NoElem

\* The first element with one of the local names (tag == name or tag.endswith("}name")).
FirstTagged(elems, names) ==
    LET P(x) == x.tag \in names IN FirstWhere(elems, P)

(***************************************************************************)
(* xml_to_json.py: code extraction.  A processor returns the strings it    *)
(* appends to tokens_buffer, in order.                                     *)
(***************************************************************************)

Quote == <<"\"">>
Hash == <<"#">>

\* The loop over the children of a Symbol: the first Component gets the prefix
\* (and, for a global symbol, a closing quote after it), later ones none.
RECURSIVE SymbolTokens(_, _, _, _, _)
RECURSIVE process_component_with_array(_, _, _)

SymbolTokens(elems, i, first_component, prefix, closing) ==
    IF i > Len(elems) THEN <<>>
    ELSE IF elems[i].tag = "Component"
    THEN IF first_component
         THEN process_component_with_array(elems[i], prefix, <<>>) \o closing
                \o SymbolTokens(elems, i + 1, FALSE, prefix, closing)
         ELSE process_component_with_array(elems[i], <<>>, <<>>)
                \o SymbolTokens(elems, i + 1, FALSE, prefix, closing)
    ELSE IF elems[i].tag = "Token"
    THEN <<Attr(elems[i], "Text", <<>>)>>
            \o SymbolTokens(elems, i + 1, first_component, prefix, closing)
    ELSE SymbolTokens(elems, i + 1, first_component, prefix, closing)

\* What process_component_with_array appends for one child of a Component.
ComponentChildTokens(child) ==
    IF child.tag = "Token" THEN <<Attr(child, "Text", <<>>)>>
    ELSE IF child.tag = "Access"
    THEN LET scope == Attr(child, "Scope", <<>>)
         IN IF scope = Chars("LocalVariable")
            THEN LET symbol == FirstTagged(child.children, {"Symbol"})
                 IN IF symbol # NoElem
                    THEN SymbolTokens(symbol.children, 1, TRUE, Hash, <<>>)
                    ELSE <<>>
            ELSE IF scope \in {Chars("GlobalVariable"), Chars("GlobalConstant")}
            THEN LET constant == FirstTagged(child.children, {"Constant"})
                 IN IF constant # NoElem /\ Attr(constant, "Name", <<>>) # <<>>
                    THEN <<Quote \o Attr(constant, "Name", <<>>) \o Quote>>
                    ELSE <<>>
            ELSE IF scope = Chars("LiteralConstant")
            THEN LET constant == FirstTagged(child.children, {"Constant"})
                 IN IF constant # NoElem
                    THEN join([k \in DOMAIN constant.children |->
                                IF constant.children[k].tag = "ConstantValue"
                                   /\ constant.children[k].text # <<>>
                                THEN <<constant.children[k].text>> ELSE <<>>])
                    ELSE <<>>
            ELSE <<>>
    ELSE <<>>

process_component_with_array(comp_elem, prefix, suffix) ==
    <<prefix \o Attr(comp_elem, "Name", <<>>) \o suffix>>
        \o join([k \in DOMAIN comp_elem.children |->
                    ComponentChildTokens(comp_elem.children[k])])

\* The "simple case" fallback: the first descendant Component, wrapped.
SimpleComponentTokens(e, before, after) ==
    LET comp == FirstTagged(Descendants(e), {"Component"})
    IN IF comp # NoElem THEN <<before \o Attr(comp, "Name", <<>>) \o after>> ELSE <<>>

\* Scope == "LocalVariable" (Access, Instance or parameter Access).
LocalVariableTokens(e) ==
    LET symbol == FirstTagged(e.children, {"Symbol"})
    IN IF symbol # NoElem
       THEN SymbolTokens(symbol.children, 1, TRUE, Hash, <<>>)
       ELSE SimpleComponentTokens(e, Hash, <<>>)

\* Scope == "GlobalVariable" or "GlobalConstant"; simple_case tells whether the
\* caller has the final "simple case" branch.
GlobalVariableTokens(e, simple_case) ==
    LET first == FirstTagged(e.children, {"Symbol", "Constant"})
    IN IF first.tag = "Symbol"
       THEN SymbolTokens(first.children, 1, TRUE, Quote, <<Quote>>)
       ELSE IF first.tag = "Constant"
       THEN IF Attr(first, "Name", <<>>) # <<>>
            THEN <<Quote \o Attr(first, "Name", <<>>) \o Quote>>
            ELSE <<>>
       ELSE IF simple_case THEN SimpleComponentTokens(e, Quote, Quote)
       ELSE <<>>

\* Scope == "LiteralConstant"/"TypedConstant" in extract_code_from_network_source:
\* the text of the first descendant ConstantValue, or "".
ConstantValueTokens(e) ==
    LET value == FirstTagged(Descendants(e), {"ConstantValue"})
    IN IF value # NoElem THEN <<value.text>> ELSE <<>>

\* Scope == "LiteralConstant" in process_parameter_element: a direct child first,
\* then any descendant; appended only when the text is not empty.
ParameterLiteralTokens(e) ==
    LET direct == FirstTagged(e.children, {"ConstantValue"})
        value == IF direct # NoElem THEN direct
                 ELSE FirstTagged(Descendants(e), {"ConstantValue"})
    IN IF value # NoElem /\ value.text # <<>> THEN <<value.text>> ELSE <<>>

\* Scope == "TypedConstant" in process_parameter_element (for ... else).
ParameterTypedTokens(e) ==
    LET direct == FirstTagged(e.children, {"ConstantValue"})
        value == IF direct # NoElem THEN direct
                 ELSE FirstTagged(Descendants(e), {"ConstantValue"})
    IN IF value # NoElem THEN <<value.text>> ELSE <<>>

\* A Blank element: " " * int(Num); ok is FALSE when int() raises.
BlankTokens(e) ==
    LET num == StrToInt(Attr(e, "Num", Chars("1")))
    IN IF num < 0 THEN [toks |-> <<>>, ok |-> FALSE]
       ELSE [toks |-> <<Spaces(num)>>, ok |-> TRUE]

Appended(toks) == [toks |-> toks, ok |-> TRUE]

\* Sequential composition of processor results: the first failure ends the walk.
RECURSIVE Chain(_)
Chain(rs) ==
    IF rs = <<>> THEN Appended(<<>>)
    ELSE IF ~Head(rs).ok THEN [toks |-> <<>>, ok |-> FALSE]
    ELSE Bind(Chain(Tail(rs)),
              LAMBDA rest : [toks |-> Head(rs).toks \o rest.toks, ok |-> rest.ok])

\* process_parameter_element: one child of a Parameter.
ParameterChildTokens(child) ==
    IF child.tag = "Token" THEN Appended(<<Attr(child, "Text", <<>>)>>)
    ELSE IF child.tag = "Blank" THEN BlankTokens(child)
    ELSE IF child.tag = "Access"
    THEN LET scope == Attr(child, "Scope", <<>>)
         IN IF scope = Chars("LocalVariable") THEN Appended(LocalVariableTokens(child))
            ELSE IF scope \in {Chars("GlobalVariable"), Chars("GlobalConstant")}
            THEN Appended(GlobalVariableTokens(child, FALSE))
            ELSE IF scope = Chars("LiteralConstant")
            THEN Appended(ParameterLiteralTokens(child))
            ELSE IF scope = Chars("TypedConstant")
            THEN Appended(ParameterTypedTokens(child))
            ELSE Appended(<<>>)
    ELSE Appended(<<>>)

process_parameter_element(param_elem) ==
    LET name == Attr(param_elem, "Name", <<>>)
        rest == Chain([k \in DOMAIN param_elem.children |->
                        ParameterChildTokens(param_elem.children[k])])
    IN [toks |-> (IF name # <<>> THEN <<name>> ELSE <<>>) \o rest.toks, ok |-> rest.ok]

\* process_call_element: one child of a CallInfo.
CallInfoChildTokens(call_child) ==
    IF call_child.tag = "Instance"
    THEN LET scope == Attr(call_child, "Scope", <<>>)
         IN IF scope = Chars("LocalVariable")
            THEN Appended(LocalVariableTokens(call_child))
            ELSE IF scope = Chars("GlobalVariable")
            THEN Appended(SimpleComponentTokens(call_child, Quote, Quote))
            ELSE Appended(<<>>)
    ELSE IF call_child.tag = "Token"
    THEN Appended(<<Attr(call_child, "Text", <<>>)>>)
    ELSE IF call_child.tag = "Parameter" THEN process_parameter_element(call_child)
    ELSE Appended(<<>>)

\* process_call_element: one child of the Call access.
CallChildTokens(child) ==
    IF child.tag = "CallInfo"
    THEN Chain([k \in DOMAIN child.children |-> CallInfoChildTokens(child.children[k])])
    ELSE IF child.tag = "Token" THEN Appended(<<Attr(child, "Text", <<>>)>>)
    ELSE IF child.tag = "Blank" THEN BlankTokens(child)
    ELSE Appended(<<>>)

process_call_element(call_elem) ==
    Chain([k \in DOMAIN call_elem.children |-> CallChildTokens(call_elem.children[k])])

\* element.findall(".//Text"): descendants named Text in no namespace.
LineCommentText(e) ==
    Bind(Descendants(e),
         LAMBDA ds : join([k \in DOMAIN ds |->
                            IF ds[k].tag = "Text" /\ ds[k].ns = "" THEN ds[k].text
                            ELSE <<>>]))

\* The body of the child loop of extract_code_from_network_source for a child
\* other than NewLine.
NodeTokens(child) ==
    IF child.tag = "Token" THEN Appended(<<Attr(child, "Text", <<>>)>>)
    ELSE IF child.tag = "Blank" THEN BlankTokens(child)
    ELSE IF child.tag = "Text"
    THEN Appended(IF child.text # <<>> THEN <<child.text>> ELSE <<>>)
    ELSE IF child.tag = "LineComment"
    THEN Bind(LineCommentText(child),
              LAMBDA text : Appended(IF text # <<>> THEN <<Chars("// ") \o text>>
                                     ELSE <<>>))
    ELSE IF child.tag = "Access"
    THEN LET scope == Attr(child, "Scope", <<>>)
         IN IF scope = Chars("LocalVariable") THEN Appended(LocalVariableTokens(child))
            ELSE IF scope \in {Chars("GlobalVariable"), Chars("GlobalConstant")}
            THEN Appended(GlobalVariableTokens(child, TRUE))
            ELSE IF scope \in {Chars("LiteralConstant"), Chars("TypedConstant")}
            THEN Appended(ConstantValueTokens(child))
            ELSE IF scope = Chars("Call") THEN process_call_element(child)
            ELSE Appended(<<>>)
    ELSE Appended(<<>>)

\* The child loop of extract_code_from_network_source: code_lines and
\* tokens_buffer at its end; ok is FALSE when an exception left it early.
RECURSIVE ExtractLoop(_, _, _, _)
ExtractLoop(children, i, code, buffer) ==
    IF i > Len(children) THEN [code |-> code, buffer |-> buffer, ok |-> TRUE]
    ELSE IF children[i].tag = "NewLine"
    THEN ExtractLoop(children, i + 1, Append(code, join(buffer)), <<>>)
    ELSE Bind(NodeTokens(children[i]),
              LAMBDA r : IF ~r.ok THEN [code |-> code, buffer |-> buffer, ok |-> FALSE]
                         ELSE ExtractLoop(children, i + 1, code, buffer \o r.toks))

\* The line length above which extract_code_from_network_source reflows a call.
LongCallLength == 120
\* The extra indentation format_long_function_call gives each parameter.
ParamIndent == 4

\* paren_depth of the parameter-splitting loop of format_long_function_call
\* when it reaches index i: the "(" seen so far less the ")" seen so far.
ParenDepth(part, i) ==
    Cardinality({k \in 1..(i - 1) : part[k] = "("})
        - Cardinality({k \in 1..(i - 1) : part[k] = ")"})

\* The indices at which the loop closes a parameter: the commas at depth 0,
\* in ascending order.
SplitPoints(part) ==
    Bind({i \in DOMAIN part : part[i] = "," /\ ParenDepth(part, i) = 0},
         LAMBDA commas :
           [n \in 1..Cardinality(commas) |->
              CHOOSE i \in commas : Cardinality({j \in commas : j < i}) = n - 1])

\* The parameter-splitting loop of format_long_function_call: the parameters
\* closed by a comma, stripped, and current_param when the loop ends.
SplitParams(part) ==
    Bind(SplitPoints(part),
         LAMBDA at :
           [params |->
              [n \in DOMAIN at |->
                 strip(SubSeq(part, IF n = 1 THEN 1 ELSE at[n - 1] + 1, at[n] - 1))],
            current_param |->
              SubSeq(part, IF at = <<>> THEN 1 ELSE at[Len(at)] + 1, Len(part))])

\* format_long_function_call, the closing of the call: ");", ")" or nothing.
CallEnding(rest) ==
    IF endswith(rest, Chars(");")) THEN Chars(");")
    ELSE IF endswith(rest, Chars(")")) THEN Chars(")")
    ELSE <<>>

\* format_long_function_call, the parameters split at the top-level commas, the
\* last one kept only if it is not blank.
CallParams(params_part) ==
    Bind(SplitParams(params_part),
         LAMBDA sp : IF strip(sp.current_param) # <<>>
                     THEN Append(sp.params, strip(sp.current_param))
                     ELSE sp.params)

\* format_long_function_call, the lines written: the function part, then one
\* indented parameter per line.
CallLines(function_part, param_indent, params, ending) ==
    <<function_part>> \o
        [k \in 1..Len(params) |->
            IF k = Len(params) THEN param_indent \o params[k] \o ending
            ELSE param_indent \o params[k] \o <<",">>]

\* format_long_function_call
format_long_function_call(ln) ==
    Bind(find(ln, <<"(">>),
         LAMBDA paren_pos :
           IF paren_pos = 0 THEN <<ln>>
           ELSE Bind(From(ln, paren_pos + 1),
                     LAMBDA rest :
                       Bind(CallParams(SubSeq(rest, 1, Len(rest) - Len(CallEnding(rest)))),
                            LAMBDA params :
                              IF Len(params) <= 2 THEN <<ln>>
                              ELSE CallLines(SubSeq(ln, 1, paren_pos),
                                             Spaces(Len(ln) - Len(lstrip(ln)) + ParamIndent),
                                             params, CallEnding(rest)))))

\* The post-processing loop of extract_code_from_network_source.
FormatLines(lines) ==
    join([k \in DOMAIN lines |->
            IF /\ Len(lines[k]) > LongCallLength
               /\ Contains(lines[k], <<"(">>)
               /\ Contains(lines[k], Chars(":="))
               /\ Contains(lines[k], <<",">>)
            THEN format_long_function_call(lines[k])
            ELSE <<lines[k]>>])

\* The lines flushed when the child loop ends: the remaining buffer is a line
\* only if it holds a token.
FlushBuffer(code, buffer) == IF buffer # <<>> THEN Append(code, join(buffer)) ELSE code

\* extract_code_from_network_source: the code lines returned.  An exception in
\* the walk is caught and the lines collected so far are returned.
extract_code_from_network_source(network_source) ==
    IF network_source = NoElem THEN <<>>
    ELSE Bind(FirstTagged(network_source.children, {"StructuredText"}),
              LAMBDA structured :
                IF structured = NoElem THEN <<>>
                ELSE Bind(ExtractLoop(structured.children, 1, <<>>, <<>>),
                          LAMBDA walk :
                            IF ~walk.ok THEN walk.code
                            ELSE FormatLines(FlushBuffer(walk.code, walk.buffer))))

\* find_network_source
find_network_source(compile_unit) ==
    IF compile_unit = NoElem THEN NoElem
    ELSE LET direct == LET P(x) == x.tag = "NetworkSource" /\ x.ns = ""
                       IN FirstWhere(compile_unit.children, P)
         IN IF direct # NoElem THEN direct
            ELSE FirstTagged(Descendants(compile_unit), {"NetworkSource"})

(***************************************************************************)
(* Canonical documents.  A document is a record with metadata (a dict),    *)
(* sections (a dict from section key to member list) and code (a list of   *)
(* lines); a member is a dict with name, datatype and optional keys.       *)
(***************************************************************************)

\* Python's None among strings.
None == <<"None">>

\* dict.get(key, default)
Get(d, key, default) == IF key \in DOMAIN d THEN d[key] ELSE default

\* Truth value of an optional string.
Truthy(v) == v # None /\ v # <<>>

\* a or b
Or(a, b) == IF Truthy(a) THEN a ELSE b

\* str(v) as str.format renders a value: None becomes the text None.
Str(v) == IF v = None THEN Chars("None") ELSE v

(***************************************************************************)
(* json_to_xml.py: sections, templates and json_to_xml                     *)
(***************************************************************************)

\* A section order that ignores the block type: the Function's.
SectionOrderOfFunction(block_type) ==
    << <<"input_section", "Input">>, <<"output_section", "Output">>,
       <<"in_out_section", "InOut">>, <<"temp_section", "Temp">>,
       <<"constant_section", "Constant">>, <<"return_section", "Return">> >>

\* section_order of generate_sections_xml for a block type.
SectionOrder(block_type) ==
    IF block_type = Chars("FC")
    THEN << <<"input_section", "Input">>, <<"output_section", "Output">>,
            <<"in_out_section", "InOut">>, <<"temp_section", "Temp">>,
            <<"constant_section", "Constant">>, <<"return_section", "Return">> >>
    ELSE IF block_type = Chars("OB")
    THEN << <<"input_section", "Input">>, <<"temp_section", "Temp">>,
            <<"constant_section", "Constant">> >>
    ELSE IF block_type \in {Chars("GlobalDB"), Chars("InstanceDB")}
    THEN << <<"static_section", "Static">> >>
    ELSE << <<"input_section", "Input">>, <<"output_section", "Output">>,
            <<"in_out_section", "InOut">>, <<"static_section", "Static">>,
            <<"temp_section", "Temp">>, <<"constant_section", "Constant">> >>

\* The Member element written for one variable of a section.
MemberXml(variable, ns) ==
    Elem("Member", ns,
         [Name |-> escape_xml(Get(variable, "name", <<>>)),
          Datatype |-> escape_xml(Get(variable, "datatype", <<>>))],
         <<>>, <<>>)

\* The Section element written for one entry of section_order.
SectionXml(item, sections, block_type, return_type, ns) ==
    IF item[1] = "return_section" /\ block_type = Chars("FC")
    THEN IF Truthy(return_type) /\ return_type # Chars("Void")
         THEN Elem("Section", ns, [Name |-> Chars("Return")],
                   << Elem("Member", ns,
                           [Name |-> Chars("Ret_Val"), Datatype |-> escape_xml(return_type)],
                           <<>>, <<>>) >>,
                   <<>>)
         ELSE Elem("Section", ns, [Name |-> Chars("Return")], <<>>, <<>>)
    ELSE LET variables == Get(sections, Chars(item[1]), <<>>)
         IN Elem("Section", ns, [Name |-> Chars(item[2])],
                 [k \in DOMAIN variables |-> MemberXml(variables[k], ns)], <<>>)

\* metadata.get("xmlNamespaceInfo", {}).get("interface", {}).get("namespace", v5)
InterfaceNamespaceOf(metadata) == Get(metadata, "interfaceNamespace", InterfaceNamespace)

\* generate_sections_xml: the Sections element.
generate_sections_xml(sections, metadata) ==
    LET ns == InterfaceNamespaceOf(metadata)
        block_type == Get(metadata, "blockType", Chars("FB"))
        return_type == Get(metadata, "returnType", None)
        order == SectionOrder(block_type)
    IN Elem("Sections", ns, NoAttrs,
            [k \in DOMAIN order |-> SectionXml(order[k], sections, block_type, return_type, ns)],
            <<>>)

TextElem(tag, text) == Elem(tag, "", NoAttrs, <<>>, text)

\* A MultilingualText object of the templates (its Items are never read).
MultilingualText(id, composition) ==
    Elem("MultilingualText", "", [ID |-> Chars(id), CompositionName |-> Chars(composition)],
         <<>>, <<>>)

\* The block element name of the template chosen by get_xml_template.
TemplateBlockTag(block_type) ==
    IF block_type = Chars("FC") THEN "SW.Blocks.FC"
    ELSE IF block_type = Chars("OB") THEN "SW.Blocks.OB"
    ELSE IF block_type \in {Chars("GlobalDB"), Chars("InstanceDB")} THEN "SW.Blocks.GlobalDB"
    ELSE "SW.Blocks.FB"

\* The base name of the JSON file, json_to_xml's fallback block name.
FileStem == Chars("block")

\* get_xml_template(block_type).format(...): the document written.
FillTemplate(block_type, v) ==
    LET tag == TemplateBlockTag(block_type)
        interface == Elem("Interface", "", NoAttrs, <<v.sections_xml>>, <<>>)
        attribute_list ==
            IF tag = "SW.Blocks.FB"
            THEN << interface, TextElem("MemoryLayout", v.memory_layout),
                    TextElem("MemoryReserve", v.memory_reserve),
                    TextElem("Name", v.block_name), TextElem("Number", v.block_number),
                    TextElem("ProgrammingLanguage", v.programming_language),
                    TextElem("SetENOAutomatically", v.eno_setting) >>
            ELSE IF tag = "SW.Blocks.FC"
            THEN << interface, TextElem("MemoryLayout", v.memory_layout),
                    TextElem("Name", v.block_name), TextElem("Number", v.block_number),
                    TextElem("ProgrammingLanguage", v.programming_language),
                    TextElem("SetENOAutomatically", v.eno_setting) >>
            ELSE IF tag = "SW.Blocks.OB"
            THEN << interface, TextElem("MemoryLayout", v.memory_layout),
                    TextElem("Name", v.block_name), TextElem("Number", v.block_number),
                    TextElem("ProgrammingLanguage", v.programming_language),
                    TextElem("SecondaryType", Chars("ProgramCycle")),
                    TextElem("SetENOAutomatically", v.eno_setting) >>
            ELSE << interface, TextElem("MemoryLayout", v.memory_layout),
                    TextElem("MemoryReserve", v.memory_reserve),
                    TextElem("Name", v.block_name), TextElem("Number", v.block_number),
                    TextElem("ProgrammingLanguage", Chars("DB")) >>
        compile_unit ==
            Elem("SW.Blocks.CompileUnit", "",
                 [ID |-> Chars("3"), CompositionName |-> Chars("CompileUnits")],
                 << Elem("AttributeList", "", NoAttrs,
                         << Elem("NetworkSource", "", NoAttrs, v.structured_text, <<>>),
                            TextElem("ProgrammingLanguage", v.programming_language) >>,
                         <<>>),
                    Elem("ObjectList", "", NoAttrs,
                         << MultilingualText("4", "Comment"), MultilingualText("6", "Title") >>,
                         <<>>) >>,
                 <<>>)
        object_list ==
            IF tag = "SW.Blocks.GlobalDB"
            THEN << MultilingualText("1", "Comment"), MultilingualText("3", "Title") >>
            ELSE << MultilingualText("1", "Comment"), compile_unit,
                    MultilingualText("8", "Title") >>
    IN Elem("Document", "", NoAttrs,
            << Elem("Engineering", "", [version |-> v.engineering_version], <<>>, <<>>),
               Elem("DocumentInfo", "", NoAttrs,
                    << TextElem("Created", Chars("2025-01-01T00:00:00.0000000Z")),
                       TextElem("ExportSetting", Chars("None")) >>, <<>>),
               Elem(tag, "", [ID |-> Chars("0")],
                    << Elem("AttributeList", "", NoAttrs, attribute_list, <<>>),
                       Elem("ObjectList", "", NoAttrs, object_list, <<>>) >>,
                    <<>>) >>,
            <<>>)

\* The generation step of json_to_xml: a fresh TIAXMLGenerator, reset to the
\* start value, for the block types that carry code; "" for the others.
JsonToXmlStructuredText(block_type, lines) ==
    IF block_type \in {Chars("FB"), Chars("FC"), Chars("OB")}
    THEN <<create_structured_text_xml(lines, reset_uid_counter(UidStart)).xml>>
    ELSE <<>>

\* json_to_xml on a canonical document that was read: the document written.
json_to_xml(json_data_in) ==
    LET metadata == Get(json_data_in, "metadata", <<>>)
        sections == Get(json_data_in, "sections", <<>>)
        lines == Get(json_data_in, "code", <<>>)
        block_type == Get(metadata, "blockType", Chars("FB"))
    IN FillTemplate(block_type,
        [ engineering_version |-> Str(Get(metadata, "engineeringVersion", Chars("V17"))),
          sections_xml |-> generate_sections_xml(sections, metadata),
          memory_layout |-> Str(Get(metadata, "memoryLayout", Chars("Optimized"))),
          memory_reserve |-> Str(Get(metadata, "memoryReserve", Chars("100"))),
          block_name |-> escape_xml(Or(Or(Get(metadata, "blockName", <<>>),
                                          Get(metadata, "name", <<>>)), FileStem)),
          block_number |-> escape_xml(Or(Or(Get(metadata, "blockNumber", <<>>),
                                            Get(metadata, "number", <<>>)), Chars("1"))),
          programming_language |-> Str(Get(metadata, "programmingLanguage", Chars("SCL"))),
          eno_setting |-> Str(Get(metadata, "enoSetting", Chars("false"))),
          structured_text |-> JsonToXmlStructuredText(block_type, lines) ])

(***************************************************************************)
(* xml_to_json.py: interface sections and the two extractor entry points   *)
(***************************************************************************)

\* d[key] = value
Put(d, key, value) == [x \in DOMAIN d \cup {key} |-> IF x = key THEN value ELSE d[x]]

\* element.find("tag"): the first direct child with that tag in no namespace.
Find(e, tag) ==
    LET P(x) == x.tag = tag /\ x.ns = "" IN FirstWhere(e.children, P)

\* element.find(".//tag"): the first descendant with that tag in no namespace.
FindDeep(e, tag) ==
    LET P(x) == x.tag = tag /\ x.ns = "" IN FirstWhere(Descendants(e), P)

\* The children of an element that satisfy P, in order.
ChildrenWhere(e, P(_)) ==
    join([k \in DOMAIN e.children |->
            IF P(e.children[k]) THEN <<e.children[k]>> ELSE <<>>])

\* The value process_member_recursively returns for a member it rejects.
NoMember == [name |-> None]

\* The member objects kept of those processed: a rejected member is skipped.
KeptMembers(processed) ==
    join([k \in DOMAIN processed |->
            IF processed[k] # NoMember THEN <<processed[k]>> ELSE <<>>])

\* The member object process_member_recursively builds from the attributes and
\* the nested members processed.
MemberObject(var_name, var_type, level, nested_members) ==
    IF var_name = None \/ var_type = None THEN NoMember
    ELSE IF var_type = Chars("Struct") /\ nested_members # <<>>
    THEN [name |-> var_name, datatype |-> var_type, level |-> level,
          members |-> nested_members]
    ELSE [name |-> var_name, datatype |-> var_type, level |-> level]

\* process_member_recursively
RECURSIVE process_member_recursively(_, _)
process_member_recursively(member, level) ==
    LET P(x) == x.tag = "Member"
    IN Bind(ChildrenWhere(member, P),
            LAMBDA children :
              MemberObject(Attr(member, "Name", None), Attr(member, "Datatype", None),
                           level,
                           KeptMembers([k \in DOMAIN children |->
                                          process_member_recursively(children[k],
                                                                     level + 1)])))

\* The member objects appended for a list of Member elements.
MemberObjects(members) ==
    KeptMembers([k \in DOMAIN members |-> process_member_recursively(members[k], 0)])

\* section_mapping.get(section_name, default)
section_mapping(section_name, default) ==
    IF section_name = Chars("Input") THEN Chars("input_section")
    ELSE IF section_name = Chars("Output") THEN Chars("output_section")
    ELSE IF section_name = Chars("InOut") THEN Chars("in_out_section")
    ELSE IF section_name = Chars("Static") THEN Chars("static_section")
    ELSE IF section_name = Chars("Temp") THEN Chars("temp_section")
    ELSE IF section_name = Chars("Constant") THEN Chars("constant_section")
    ELSE default

\* The "sections" dict both extractors start from.
EmptySections ==
    [k \in {Chars("input_section"), Chars("output_section"), Chars("in_out_section"),
            Chars("static_section"), Chars("temp_section"), Chars("constant_section")}
        |-> <<>>]

\* The section loop of xml_to_json (first pass): direct Section children, the
\* section list reset, direct Member children appended.
RECURSIVE FirstPassSections(_, _, _)
FirstPassSections(section_elements, i, sections) ==
    IF i > Len(section_elements) THEN sections
    ELSE LET section == section_elements[i]
             section_name == Attr(section, "Name", None)
             json_section_name == section_mapping(section_name, lower(section_name))
             members == LET P(x) == x.tag = "Member" IN ChildrenWhere(section, P)
         IN IF section_name = None
            THEN FirstPassSections(section_elements, i + 1, sections)
            ELSE FirstPassSections(section_elements, i + 1,
                    Put(sections, json_section_name, MemberObjects(members)))

\* The section loop of process_interface_sections: every child of Sections, the
\* section list kept, children whose tag ends with Member appended.
RECURSIVE InterfaceSections(_, _, _)
InterfaceSections(section_elements, i, sections) ==
    IF i > Len(section_elements) THEN sections
    ELSE LET section == section_elements[i]
             section_name == Attr(section, "Name", None)
             json_section_name ==
                 section_mapping(section_name, lower(section_name) \o Chars("_section"))
             members == LET P(x) == endswith(Chars(x.tag), Chars("Member"))
                        IN ChildrenWhere(section, P)
             before == Get(sections, json_section_name, <<>>)
         IN IF section_name = None
            THEN InterfaceSections(section_elements, i + 1, sections)
            ELSE InterfaceSections(section_elements, i + 1,
                    Put(sections, json_section_name, before \o MemberObjects(members)))

\* process_interface_sections: json_data["sections"] after the call.
process_interface_sections(interface, sections) ==
    LET P(x) == endswith(Chars(x.tag), Chars("Sections"))
    IN Bind(FirstWhere(interface.children, P),
            LAMBDA found : IF found = NoElem THEN sections
                           ELSE InterfaceSections(found.children, 1, sections))

\* The description both extractors write.
Description(block_type) ==
    Chars("TIA Portal ") \o block_type \o Chars(" block converted to JSON format")

\* The outcome of an extractor: returned is FALSE for None or an exception.
Failed == [returned |-> FALSE]
Returned(doc) == [returned |-> TRUE, doc |-> doc]

\* The block lookup of patched_xml_to_json: the first descendant of the root
\* whose tag ends with .FB, .OB, .FC or .GlobalDB.
PatchedBlock(root) ==
    LET P(x) == \E sfx \in {Chars(".FB"), Chars(".OB"), Chars(".FC"), Chars(".GlobalDB")} :
                    endswith(Chars(x.tag), sfx)
    IN FirstWhere(Descendants(root), P)

PatchedBlockType(block) ==
    IF block = NoElem THEN Chars("Unknown")
    ELSE IF endswith(Chars(block.tag), Chars(".FB")) THEN Chars("FB")
    ELSE IF endswith(Chars(block.tag), Chars(".OB")) THEN Chars("OB")
    ELSE IF endswith(Chars(block.tag), Chars(".FC")) THEN Chars("FC")
    ELSE Chars("GlobalDB")

\* The metadata loop of patched_xml_to_json over Name, Number, ... : the key is
\* the element name with a lower-case first letter.
RECURSIVE PatchedMetadata(_, _, _)
PatchedMetadata(attr_list, keys, metadata) ==
    IF keys = <<>> THEN metadata
    ELSE LET element == Find(attr_list, Head(keys)[1])
         IN IF element # NoElem /\ element.text # <<>>
            THEN PatchedMetadata(attr_list, Tail(keys),
                                 Put(metadata, Head(keys)[2], element.text))
            ELSE PatchedMetadata(attr_list, Tail(keys), metadata)

\* The namespace of the first child whose tag contains the name and a "}".
ChildNamespace(e, name, default) ==
    LET P(x) == x.tag = name /\ x.ns # "" IN
    IF FirstWhere(e.children, P) # NoElem THEN FirstWhere(e.children, P).ns ELSE default

\* The metadata patched_xml_to_json starts from.
PatchedDefaults(block_type) ==
    [blockName |-> <<>>, blockNumber |-> <<>>,
     programmingLanguage |-> <<>>, memoryLayout |-> <<>>,
     memoryReserve |-> <<>>, enoSetting |-> <<>>,
     engineeringVersion |-> <<>>, description |-> Description(block_type),
     interfaceNamespace |-> "", networkSourceNamespace |-> ""]

\* patched_xml_to_json, the attributes read from the AttributeList.
PatchedAttributes(metadata, attr_list) ==
    IF attr_list = NoElem THEN metadata
    ELSE PatchedMetadata(attr_list,
                         << <<"Name", "name">>, <<"Number", "number">>,
                            <<"ProgrammingLanguage", "programmingLanguage">>,
                            <<"MemoryLayout", "memoryLayout">>,
                            <<"MemoryReserve", "memoryReserve">> >>, metadata)

\* patched_xml_to_json, SetENOAutomatically: eno.text.lower()
PatchedEno(metadata, eno) ==
    IF eno = NoElem THEN metadata
    ELSE [metadata EXCEPT !.enoSetting = lower(eno.text)]

\* patched_xml_to_json, the version attribute of Engineering.
PatchedEngineering(metadata, engineering) ==
    IF engineering # NoElem /\ "version" \in DOMAIN engineering.attrs
    THEN [metadata EXCEPT !.engineeringVersion = engineering.attrs.version]
    ELSE metadata

\* patched_xml_to_json, the namespace of the StructuredText child.
PatchedNetworkSourceNamespace(metadata, network_source) ==
    IF network_source = NoElem THEN metadata
    ELSE [metadata EXCEPT !.networkSourceNamespace =
             ChildNamespace(network_source, "StructuredText", "")]

\* patched_xml_to_json, the namespace of the Sections child.
PatchedInterfaceNamespace(metadata, interface) ==
    IF interface = NoElem THEN metadata
    ELSE [metadata EXCEPT !.interfaceNamespace = ChildNamespace(interface, "Sections", "")]

\* patched_xml_to_json once the block and the elements it reads are located:
\* without a block the defaults are returned; an empty SetENOAutomatically
\* raises (None has no lower()).
PatchedDocument(root, block, attr_list, eno, network_source, interface) ==
    IF block = NoElem
    THEN Returned([metadata |-> PatchedDefaults(PatchedBlockType(block)),
                   sections |-> EmptySections, code |-> <<>>])
    ELSE IF eno # NoElem /\ eno.text = <<>> THEN Failed
    ELSE Returned(
           [metadata |->
               PatchedInterfaceNamespace(
                   PatchedNetworkSourceNamespace(
                       PatchedEngineering(
                           PatchedEno(
                               PatchedAttributes(PatchedDefaults(PatchedBlockType(block)),
                                                 attr_list),
                               eno),
                           Find(root, "Engineering")),
                       network_source),
                   interface),
            sections |-> IF interface = NoElem THEN EmptySections
                         ELSE process_interface_sections(interface, EmptySections),
            code |-> extract_code_from_network_source(network_source)])

\* patched_xml_to_json on a parsed document.
patched_xml_to_json(root) ==
    Bind(PatchedBlock(root),
         LAMBDA block :
           Bind(Find(block, "AttributeList"),
                LAMBDA attr_list :
                  PatchedDocument(
                      root, block, attr_list,
                      IF attr_list = NoElem THEN NoElem
                      ELSE Find(attr_list, "SetENOAutomatically"),
                      find_network_source(FindDeep(block, "SW.Blocks.CompileUnit")),
                      IF attr_list = NoElem THEN NoElem
                      ELSE Find(attr_list, "Interface"))))

\* The body of the child loop of xml_to_json's own code extraction: as
\* extract_code_from_network_source's, but a constant looks at its direct
\* children first and a literal with no text appends nothing.
InlineNodeTokens(child) ==
    IF child.tag = "Access" /\ Attr(child, "Scope", <<>>) = Chars("LiteralConstant")
    THEN Appended(ParameterLiteralTokens(child))
    ELSE IF child.tag = "Access" /\ Attr(child, "Scope", <<>>) = Chars("TypedConstant")
    THEN Appended(ParameterTypedTokens(child))
    ELSE NodeTokens(child)

RECURSIVE InlineLoop(_, _, _, _)
InlineLoop(children, i, code, buffer) ==
    IF i > Len(children) THEN [code |-> code, buffer |-> buffer, ok |-> TRUE]
    ELSE IF children[i].tag = "NewLine"
    THEN InlineLoop(children, i + 1, Append(code, join(buffer)), <<>>)
    ELSE Bind(InlineNodeTokens(children[i]),
              LAMBDA r : IF ~r.ok THEN [code |-> code, buffer |-> buffer, ok |-> FALSE]
                         ELSE InlineLoop(children, i + 1, code, buffer \o r.toks))

\* " ".join(parts)
RECURSIVE JoinWithSpace(_)
JoinWithSpace(parts) ==
    IF parts = <<>> THEN <<>>
    ELSE IF Len(parts) = 1 THEN Head(parts)
    ELSE Head(parts) \o <<" ">> \o JoinWithSpace(Tail(parts))

\* extract_text of xml_to_json: the stripped texts of an element and its
\* descendants, in document order.
RECURSIVE extract_text(_)
extract_text(element) ==
    (IF strip(element.text) # <<>> THEN <<strip(element.text)>> ELSE <<>>)
        \o join([k \in DOMAIN element.children |-> extract_text(element.children[k])])

\* The alternative approach of xml_to_json when no code line was extracted.
AlternativeCodeLines(structured) ==
    Bind(extract_text(structured),
         LAMBDA all_text :
           IF all_text = <<>> THEN <<>>
           ELSE Bind(split(JoinWithSpace(all_text), ";"),
                     LAMBDA statements :
                       join([k \in DOMAIN statements |->
                               IF strip(statements[k]) # <<>>
                               THEN <<strip(statements[k]) \o <<";">> >> ELSE <<>>])))

\* The StructuredText lookup of xml_to_json: a direct child in a known
\* namespace (v3, v2, v1 in that order), else the first element of
\* network_source.iter() with that local name.
KnownNamespaces ==
    << STNamespace,
       "http://www.siemens.com/automation/Openness/SW/NetworkSource/StructuredText/v2",
       "http://www.siemens.com/automation/Openness/SW/NetworkSource/StructuredText/v1" >>

InlineStructuredText(network_source) ==
    LET InNs(k) == LET P(x) == x.tag = "StructuredText" /\ x.ns = KnownNamespaces[k]
                   IN FirstWhere(network_source.children, P)
    IN IF \E k \in DOMAIN KnownNamespaces : InNs(k) # NoElem
       THEN InNs(CHOOSE k \in DOMAIN KnownNamespaces :
                    InNs(k) # NoElem /\ \A j \in 1..(k - 1) : InNs(j) = NoElem)
       ELSE FirstTagged(<<network_source>> \o Descendants(network_source),
                        {"StructuredText"})

\* xml_to_json without a StructuredText: the stripped non-blank lines of the
\* text of the NetworkSource.
NetworkSourceTextLines(text_lines) ==
    join([k \in DOMAIN text_lines |->
            IF strip(text_lines[k]) # <<>> THEN <<strip(text_lines[k])>> ELSE <<>>])

\* xml_to_json after its child loop: the lines so far if an exception ended
\* the loop, else the lines flushed, else the alternative approach.
InlineWalked(structured, walk, lines) ==
    IF ~walk.ok THEN walk.code
    ELSE IF lines # <<>> THEN lines
    ELSE AlternativeCodeLines(structured)

\* The code extraction of xml_to_json: json_data["code"].
InlineCodeLines(network_source) ==
    IF network_source = NoElem THEN <<>>
    ELSE Bind(InlineStructuredText(network_source),
              LAMBDA structured :
                IF structured = NoElem
                THEN IF strip(network_source.text) # <<>>
                     THEN NetworkSourceTextLines(split(network_source.text, "\n"))
                     ELSE <<>>
                ELSE Bind(InlineLoop(structured.children, 1, <<>>, <<>>),
                          LAMBDA walk :
                            InlineWalked(structured, walk,
                                         FlushBuffer(walk.code, walk.buffer))))

\* The namespace the serialised element declares first: that of the first
\* namespaced element in document order, else default.  This is the outcome in
\* an interpreter where no prefix has been registered for the namespace; once
\* patched_xml_to_json has registered the empty prefix (line 609) neither
\* pattern of lines 195-203 matches and the entry stays empty.
FirstNamespace(e, default) ==
    LET P(x) == x.ns # ""
        first == FirstWhere(<<e>> \o Descendants(e), P)
    IN IF first # NoElem THEN first.ns ELSE default

\* The block lookup of xml_to_json: FB, then OB, FC, GlobalDB.
BlockTags ==
    << <<"SW.Blocks.FB", "FB">>, <<"SW.Blocks.OB", "OB">>,
       <<"SW.Blocks.FC", "FC">>, <<"SW.Blocks.GlobalDB", "GlobalDB">> >>

FoundBlock(root) ==
    IF \E k \in DOMAIN BlockTags : FindDeep(root, BlockTags[k][1]) # NoElem
    THEN LET k == CHOOSE k \in DOMAIN BlockTags :
                    /\ FindDeep(root, BlockTags[k][1]) # NoElem
                    /\ \A j \in 1..(k - 1) : FindDeep(root, BlockTags[j][1]) = NoElem
         IN [block |-> FindDeep(root, BlockTags[k][1]), block_type |-> Chars(BlockTags[k][2])]
    ELSE [block |-> NoElem, block_type |-> Chars("GlobalDB")]

\* attr_list.find(key).text if the element is there (None for an element
\* without text), else the default.
TextOr(attr_list, key, default) ==
    IF Find(attr_list, key) = NoElem THEN default
    ELSE IF Find(attr_list, key).text = <<>> THEN None
    ELSE Find(attr_list, key).text

\* The Sections lookup of xml_to_json: a descendant in the v5 namespace, else
\* the first descendant with that local name.
InterfaceSectionsElement(interface_element) ==
    IF interface_element = NoElem THEN NoElem
    ELSE LET P(x) == x.tag = "Sections" /\ x.ns = InterfaceNamespace
             v5 == FirstWhere(Descendants(interface_element), P)
         IN IF v5 # NoElem THEN v5
            ELSE FirstTagged(Descendants(interface_element), {"Sections"})

\* The metadata xml_to_json writes.
InlineMetadata(engineering, block_type, attr_list, interface_element, network_source) ==
    [blockName |-> TextOr(attr_list, "Name", Chars("Unknown")),
     blockNumber |-> TextOr(attr_list, "Number", Chars("0")),
     programmingLanguage |-> TextOr(attr_list, "ProgrammingLanguage", Chars("Unknown")),
     memoryLayout |-> TextOr(attr_list, "MemoryLayout", Chars("Unknown")),
     memoryReserve |-> TextOr(attr_list, "MemoryReserve", Chars("0")),
     enoSetting |-> TextOr(attr_list, "SetENOAutomatically", Chars("false")),
     engineeringVersion |-> IF engineering = NoElem THEN <<>>
                            ELSE Attr(engineering, "version", None),
     description |-> Description(block_type),
     interfaceNamespace |-> IF interface_element = NoElem THEN ""
                            ELSE FirstNamespace(interface_element, InterfaceNamespace),
     networkSourceNamespace |-> IF network_source = NoElem THEN ""
                                ELSE FirstNamespace(network_source, "")]

\* The sections after the first pass of xml_to_json over the Sections element.
InlineFirstPass(sections) ==
    IF sections = NoElem THEN EmptySections
    ELSE LET P(x) == x.tag = "Section"
         IN FirstPassSections(ChildrenWhere(sections, P), 1, EmptySections)

\* The NetworkSource xml_to_json reads: a direct child of the compile unit.
InlineNetworkSource(compile_unit) ==
    IF compile_unit = NoElem THEN NoElem ELSE Find(compile_unit, "NetworkSource")

\* xml_to_json once the block and the elements it reads are located: None
\* without a block or without an AttributeList.
InlineDocument(root, found, attr_list, interface_element, network_source) ==
    IF found.block = NoElem THEN Failed
    ELSE IF attr_list = NoElem THEN Failed
    ELSE Returned(
           [metadata |-> InlineMetadata(Find(root, "Engineering"), found.block_type,
                                        attr_list, interface_element, network_source),
            sections |->
               IF interface_element = NoElem
               THEN InlineFirstPass(InterfaceSectionsElement(interface_element))
               ELSE process_interface_sections(
                        interface_element,
                        InlineFirstPass(InterfaceSectionsElement(interface_element))),
            code |-> InlineCodeLines(network_source)])

\* xml_to_json on a parsed document.
xml_to_json(root) ==
    Bind(FoundBlock(root),
         LAMBDA found :
           Bind(Find(found.block, "AttributeList"),
                LAMBDA attr_list :
                  InlineDocument(
                      root, found, attr_list, Find(attr_list, "Interface"),
                      InlineNetworkSource(FindDeep(found.block, "SW.Blocks.CompileUnit")))))

(***************************************************************************)
(* scl_to_json.py: SCLToJSONConverter.  The regular expressions are         *)
(* rendered as searches over the character sequence; a search result is    *)
(* a record whose found field tells whether the pattern matched.           *)
(***************************************************************************)

\* \w
isword(c) == isalnum(c) \/ c = "_"

NoMatch == [found |-> FALSE]

\* The leftmost position of 1..Len(s) that satisfies M, 0 if none.
FirstPos(s, M(_)) ==
    IF \E p \in 1..Len(s) : M(p)
    THEN CHOOSE p \in 1..Len(s) : M(p) /\ \A k \in 1..(p - 1) : ~M(k)
    ELSE 0

\* keyword\s+"([^"]+)" tried at position p: the name and the position after
\* the closing quote.
HeaderAt(content, keyword, p) ==
    LET q == RunEnd(content, p + Len(keyword), isspace)
        r == FindFrom(content, Quote, q + 1)
    IN IF /\ StartsWithAt(content, p, keyword)
          /\ q > p + Len(keyword)
          /\ q <= Len(content)
          /\ content[q] = "\""
          /\ r > q + 1
       THEN [found |-> TRUE, name |-> SubSeq(content, q + 1, r - 1), after |-> r + 1]
       ELSE NoMatch

\* re.search(keyword\s+"([^"]+)", content)
HeaderSearch(content, keyword) ==
    LET M(p) == HeaderAt(content, keyword, p).found
    IN IF FirstPos(content, M) = 0 THEN NoMatch
       ELSE HeaderAt(content, keyword, FirstPos(content, M))

\* (?<!FUNCTION_BLOCK\s) at position p
AfterFunctionBlock(content, p) ==
    /\ p > Len(Chars("FUNCTION_BLOCK")) + 1
    /\ SubSeq(content, p - 15, p - 2) = Chars("FUNCTION_BLOCK")
    /\ isspace(content[p - 1])

\* re.search((?<!FUNCTION_BLOCK\s)FUNCTION\s+"([^"]+)", content)
FunctionSearch(content) ==
    LET M(p) == HeaderAt(content, Chars("FUNCTION"), p).found /\ ~AfterFunctionBlock(content, p)
    IN FirstPos(content, M) # 0

\* FUNCTION\s+"([^"]+)"\s*:\s*(\w+) tried at position p
FunctionReturnAt(content, p) ==
    LET h == HeaderAt(content, Chars("FUNCTION"), p)
        a == RunEnd(content, h.after, isspace)
        b == RunEnd(content, a + 1, isspace)
        w == RunEnd(content, b, isword)
    IN IF /\ h.found
          /\ h.after <= Len(content)
          /\ a <= Len(content)
          /\ content[a] = ":"
          /\ w > b
       THEN [found |-> TRUE, name |-> h.name, return_type |-> SubSeq(content, b, w - 1)]
       ELSE NoMatch

FunctionReturnSearch(content) ==
    LET M(p) == FunctionReturnAt(content, p).found
    IN IF FirstPos(content, M) = 0 THEN NoMatch
       ELSE FunctionReturnAt(content, FirstPos(content, M))

\* re.search(OB(\d+), name): the digits after the leftmost OB followed by one.
ObNumberSearch(name) ==
    LET M(p) == /\ StartsWithAt(name, p, Chars("OB"))
                /\ p + 2 <= Len(name)
                /\ isdigit(name[p + 2])
        p0 == FirstPos(name, M)
    IN IF p0 = 0 THEN NoMatch
       ELSE [found |-> TRUE,
             number |-> SubSeq(name, p0 + 2, RunEnd(name, p0 + 2, isdigit) - 1)]

\* keyword\s*sep\s* tried at position p: the position after it, 0 if no match.
AssignAt(content, keyword, sep, p) ==
    LET a == RunEnd(content, p + Len(keyword), isspace)
        b == RunEnd(content, a + Len(sep), isspace)
    IN IF StartsWithAt(content, p, keyword) /\ StartsWithAt(content, a, sep)
       THEN b ELSE 0

\* re.search(S7_Optimized_Access\s*:=\s*['"]([^'"]+)['"], content)
OptimizedAccessSearch(content) ==
    LET isquote(c) == c \in {"'", "\""}
        notquote(c) == ~isquote(c)
        Start(p) == AssignAt(content, Chars("S7_Optimized_Access"), Chars(":="), p)
        M(p) == /\ Start(p) # 0
                /\ Start(p) < Len(content)
                /\ isquote(content[Start(p)])
                /\ RunEnd(content, Start(p) + 1, notquote) > Start(p) + 1
                /\ RunEnd(content, Start(p) + 1, notquote) <= Len(content)
        p0 == FirstPos(content, M)
    IN IF p0 = 0 THEN NoMatch
       ELSE [found |-> TRUE,
             value |-> SubSeq(content, Start(p0) + 1,
                              RunEnd(content, Start(p0) + 1, notquote) - 1)]

\* re.search(VERSION\s*:\s*([\d.]+), content)
VersionSearch(content) ==
    LET isver(c) == isdigit(c) \/ c = "."
        Start(p) == AssignAt(content, Chars("VERSION"), <<":">>, p)
        M(p) == Start(p) # 0 /\ RunEnd(content, Start(p), isver) > Start(p)
        p0 == FirstPos(content, M)
    IN IF p0 = 0 THEN NoMatch
       ELSE [found |-> TRUE,
             value |-> SubSeq(content, Start(p0), RunEnd(content, Start(p0), isver) - 1)]

\* re.search(AUTHOR\s*:\s*([^\n]+), content), group(1).strip(): when the white
\* space after the colon runs to a line break or to the end, the group is
\* what the backtracking \s* leaves of it, which strips to "".
AuthorSearch(content) ==
    LET notnl(c) == c # "\n"
        Colon(p) == RunEnd(content, p + Len(Chars("AUTHOR")), isspace)
        Start(p) == AssignAt(content, Chars("AUTHOR"), <<":">>, p)
        M(p) == /\ Start(p) # 0
                /\ \E k \in (Colon(p) + 1)..Len(content) :
                        notnl(content[k]) /\ \A j \in (Colon(p) + 1)..(k - 1) : isspace(content[j])
        p0 == FirstPos(content, M)
    IN IF p0 = 0 THEN NoMatch
       ELSE [found |-> TRUE,
             value |-> IF Start(p0) <= Len(content) /\ notnl(content[Start(p0)])
                       THEN strip(SubSeq(content, Start(p0),
                                         RunEnd(content, Start(p0), notnl) - 1))
                       ELSE <<>>]

\* The metadata parse_scl_header starts from.
HeaderDefaults ==
    [blockName |-> <<>>, blockType |-> Chars("FB"), blockNumber |-> Chars("1"),
     programmingLanguage |-> Chars("SCL"), memoryLayout |-> Chars("Optimized"),
     memoryReserve |-> Chars("100"), enoSetting |-> Chars("false"),
     engineeringVersion |-> Chars("V17"),
     description |-> Chars("TIA Portal block converted from SCL"),
     returnType |-> None,
     interfaceNamespace |-> InterfaceNamespace, networkSourceNamespace |-> STNamespace]

\* The assignments parse_scl_header makes for a recognised block.
Named(metadata, name, block_type, description) ==
    Put([metadata EXCEPT !.blockName = name, !.blockType = Chars(block_type),
                         !.description = Chars(description)],
        "name", name)

\* parse_scl_header, FUNCTION_BLOCK and FUNCTION: the first of the two headers
\* that is found names the block; a FUNCTION without a return type is Void.
HeaderBlock(content, fb_match, fc_match, fc_match_no_ret) ==
    IF fb_match.found
    THEN Named(HeaderDefaults, fb_match.name, "FB",
               "TIA Portal Function Block converted from SCL")
    ELSE IF FunctionSearch(content)
    THEN IF fc_match.found
         THEN [Named(HeaderDefaults, fc_match.name, "FC",
                     "TIA Portal Function converted from SCL")
                  EXCEPT !.returnType = fc_match.return_type]
         ELSE IF fc_match_no_ret.found
         THEN [Named(HeaderDefaults, fc_match_no_ret.name, "FC",
                     "TIA Portal Function converted from SCL")
                  EXCEPT !.returnType = Chars("Void")]
         ELSE HeaderDefaults
    ELSE HeaderDefaults

\* parse_scl_header, the OB number taken from the block name.
HeaderObNumber(named, ob_num_match) ==
    IF ob_num_match.found THEN [named EXCEPT !.blockNumber = ob_num_match.number]
    ELSE named

\* parse_scl_header, ORGANIZATION_BLOCK (an if of its own, after the chain).
HeaderOrganization(metadata, ob_match) ==
    IF ob_match.found
    THEN HeaderObNumber(Named(metadata, ob_match.name, "OB",
                              "TIA Portal Organization Block converted from SCL"),
                        ObNumberSearch(ob_match.name))
    ELSE metadata

\* parse_scl_header, DATA_BLOCK.
HeaderData(metadata, db_match) ==
    IF db_match.found
    THEN [Named(metadata, db_match.name, "GlobalDB",
                "TIA Portal Data Block converted from SCL")
             EXCEPT !.programmingLanguage = Chars("DB")]
    ELSE metadata

\* parse_scl_header, S7_Optimized_Access.
HeaderOptimized(metadata, opt_match) ==
    IF opt_match.found
    THEN [metadata EXCEPT !.memoryLayout =
             IF opt_match.value = Chars("TRUE") THEN Chars("Optimized")
             ELSE Chars("Standard")]
    ELSE metadata

\* parse_scl_header, VERSION.
HeaderVersion(metadata, version_match) ==
    IF version_match.found THEN Put(metadata, "version", version_match.value)
    ELSE metadata

\* parse_scl_header, AUTHOR.
HeaderAuthor(metadata, author_match) ==
    IF author_match.found THEN Put(metadata, "author", author_match.value)
    ELSE metadata

\* parse_scl_header
parse_scl_header(content) ==
    HeaderAuthor(
        HeaderVersion(
            HeaderOptimized(
                HeaderData(
                    HeaderOrganization(
                        HeaderBlock(content,
                                    HeaderSearch(content, Chars("FUNCTION_BLOCK")),
                                    FunctionReturnSearch(content),
                                    HeaderSearch(content, Chars("FUNCTION"))),
                        HeaderSearch(content, Chars("ORGANIZATION_BLOCK"))),
                    HeaderSearch(content, Chars("DATA_BLOCK"))),
                OptimizedAccessSearch(content)),
            VersionSearch(content)),
        AuthorSearch(content))

\* [a-zA-Z_][a-zA-Z0-9_]* at the start of a line: the position after it, 0
\* if the line does not start with an identifier.
IdentifierEnd(ln) ==
    IF ln # <<>> /\ (isalpha(ln[1]) \/ ln[1] = "_") THEN RunEnd(ln, 2, isword) ELSE 0

\* re.match(\s*([a-zA-Z_][a-zA-Z0-9_]*)\s*.*?\s*:\s*Struct.*, line)
StructMatch(ln) ==
    LET e == IdentifierEnd(ln)
    IN IF /\ e # 0
          /\ \E c \in e..Len(ln) :
                /\ ln[c] = ":"
                /\ StartsWithAt(ln, RunEnd(ln, c + 1, isspace), Chars("Struct"))
       THEN [found |-> TRUE, name |-> SubSeq(ln, 1, e - 1)]
       ELSE NoMatch

\* re.match(\s*([a-zA-Z_][a-zA-Z0-9_]*)\s*(?:\{[^}]*\})?\s*:\s*([^;]+);.*, line),
\* group(2).strip()
VarMatch(ln) ==
    LET \* (?:\{[^}]*\})? tried at position a: the position after it.
        AfterAttributes(a) ==
            Bind(FindFrom(ln, <<"}">>, a + 1),
                 LAMBDA close : IF a <= Len(ln) /\ ln[a] = "{" /\ close # 0
                                THEN close + 1 ELSE a)
        Matched(e, colon, semi) ==
            IF /\ e # 0
               /\ colon <= Len(ln)
               /\ ln[colon] = ":"
               /\ semi > colon + 1
            THEN [found |-> TRUE, name |-> SubSeq(ln, 1, e - 1),
                  datatype |-> strip(SubSeq(ln, colon + 1, semi - 1))]
            ELSE NoMatch
    IN Bind(IdentifierEnd(ln),
            LAMBDA e :
              Bind(RunEnd(ln, AfterAttributes(RunEnd(ln, e, isspace)), isspace),
                   LAMBDA colon : Matched(e, colon, FindFrom(ln, <<";">>, colon + 1))))

\* re.sub(\s*\{[^}]*\}\s*, '', datatype)
RECURSIVE RemoveAttributes(_)
RemoveAttributes(t) ==
    LET open == find(t, <<"{">>)
        close == FindFrom(t, <<"}">>, open + 1)
        start == CHOOSE k \in 1..open :
                    /\ \A j \in k..(open - 1) : isspace(t[j])
                    /\ (k = 1 \/ ~isspace(t[k - 1]))
    IN IF open = 0 \/ close = 0 THEN t
       ELSE SubSeq(t, 1, start - 1)
              \o RemoveAttributes(From(t, RunEnd(t, close + 1, isspace)))

\* The first index from i of a line that contains END_STRUCT, Len + 1 if none.
EndStructFrom(lines, i) ==
    IF \E j \in i..Len(lines) : Contains(lines[j], Chars("END_STRUCT"))
    THEN CHOOSE j \in i..Len(lines) :
            /\ Contains(lines[j], Chars("END_STRUCT"))
            /\ \A k \in i..(j - 1) : ~Contains(lines[k], Chars("END_STRUCT"))
    ELSE Len(lines) + 1

\* parse_variable_section, the variable appended for a Struct declaration.
StructVariable(variables, struct_var_match) ==
    IF struct_var_match.found
    THEN Append(variables, [name |-> struct_var_match.name, datatype |-> Chars("Struct")])
    ELSE variables

\* parse_variable_section, the variable appended for a regular declaration.
DeclaredVariable(variables, var_match) ==
    IF var_match.found
    THEN Append(variables, [name |-> var_match.name,
                            datatype |-> strip(RemoveAttributes(var_match.datatype))])
    ELSE variables

\* The index the while loop of parse_variable_section goes to after the line
\* ln at index i, and the variables then.
VariableLine(lines, i, ln, variables) ==
    IF \/ ln = <<>>
       \/ startswith(ln, Chars("//"))
       \/ startswith(ln, Chars("(*"))
       \/ startswith(ln, Chars("VAR"))
       \/ startswith(ln, Chars("END_VAR"))
    THEN [next |-> i + 1, variables |-> variables]
    ELSE IF Contains(ln, Chars("Struct")) /\ ~endswith(ln, <<";">>)
    THEN [next |-> EndStructFrom(lines, i + 1) + 1,
          variables |-> StructVariable(variables, StructMatch(ln))]
    ELSE IF Contains(ln, Chars("END_STRUCT"))
    THEN [next |-> i + 1, variables |-> variables]
    ELSE [next |-> i + 1, variables |-> DeclaredVariable(variables, VarMatch(ln))]

\* The while loop of parse_variable_section from index i.
RECURSIVE ParseVariableLines(_, _, _)
ParseVariableLines(lines, i, variables) ==
    IF i > Len(lines) THEN variables
    ELSE Bind(VariableLine(lines, i, strip(lines[i]), variables),
              LAMBDA step : ParseVariableLines(lines, step.next, step.variables))

\* parse_variable_section
parse_variable_section(section_content) ==
    ParseVariableLines(split(section_content, "\n"), 1, <<>>)

\* Where the opening of a section pattern, tried at position p of the text in
\* upper case (re.IGNORECASE), ends: the start of the group, 0 if no match.
SectionOpenAt(u, kind, p) ==
    LET a == RunEnd(u, p + 3, isspace)
        nl == CHOOSE k \in (p + 3)..(a - 1) :
                u[k] = "\n" /\ \A j \in (k + 1)..(a - 1) : u[j] # "\n"
    IN IF kind \in {"VAR_INPUT", "VAR_OUTPUT", "VAR_IN_OUT", "VAR_TEMP"}
       THEN IF StartsWithAt(u, p, Chars(kind)) THEN p + Len(Chars(kind)) ELSE 0
       ELSE IF kind \in {"CONSTANT", "RETAIN"}
       THEN IF StartsWithAt(u, p, Chars("VAR")) /\ a > p + 3
                /\ StartsWithAt(u, a, Chars(kind))
            THEN a + Len(Chars(kind)) ELSE 0
       ELSE IF /\ StartsWithAt(u, p, Chars("VAR"))
               /\ (p = 1 \/ ~isword(u[p - 1]))
               /\ \E k \in (p + 3)..(a - 1) : u[k] = "\n"
            THEN nl + 1 ELSE 0

\* Whether a section pattern matches at position p of the text in upper case:
\* the opening, then END_VAR somewhere after it.
SectionAt(u, kind, p) ==
    Bind(SectionOpenAt(u, kind, p),
         LAMBDA g : g # 0 /\ FindFrom(u, Chars("END_VAR"), g) # 0)

\* re.findall / re.sub of a section pattern from position i: the groups
\* matched and the text with the matches removed.
RECURSIVE SectionScan(_, _, _)
SectionScan(content, kind, i) ==
    LET \* The match at p0, its group g..e - 1, and the matches after it.
        Matched(p0, g, e, rest) ==
            [groups |-> <<SubSeq(content, g, e - 1)>> \o rest.groups,
             remaining |-> SubSeq(content, i, p0 - 1) \o rest.remaining]
        Group(u, p0, g) ==
            Bind(FindFrom(u, Chars("END_VAR"), g),
                 LAMBDA e : Matched(p0, g, e,
                                    SectionScan(content, kind, e + Len(Chars("END_VAR")))))
        From0(u) ==
            LET M(p) == p >= i /\ SectionAt(u, kind, p)
            IN Bind(FirstPos(content, M),
                    LAMBDA p0 : IF p0 = 0
                                THEN [groups |-> <<>>, remaining |-> From(content, i)]
                                ELSE Group(u, p0, SectionOpenAt(u, kind, p0)))
    IN From0(upper(content))

\* The variables of all groups of one pattern, in order.
SectionVariables(groups) ==
    join([k \in DOMAIN groups |-> parse_variable_section(groups[k])])

\* extract_variable_sections
extract_variable_sections(content) ==
    LET \* One findall / extend / sub step: the variables of the groups are
        \* appended to the section and the matches leave the remaining text.
        Extended(acc, key, scan) ==
            [sections |-> [acc.sections EXCEPT
                              ![Chars(key)] = @ \o SectionVariables(scan.groups)],
             remaining_content |-> scan.remaining]
        Step(acc, kind, key) ==
            Extended(acc, key, SectionScan(acc.remaining_content, kind, 1))
    IN Step(Step(Step(Step(Step(Step(Step(
           [sections |-> EmptySections, remaining_content |-> content],
           "VAR_INPUT", "input_section"),
           "VAR_OUTPUT", "output_section"),
           "VAR_IN_OUT", "in_out_section"),
           "VAR_TEMP", "temp_section"),
           "CONSTANT", "constant_section"),
           "RETAIN", "static_section"),
           "VAR", "static_section").sections

\* end_markers of extract_code_section
EndMarker(block_type) ==
    IF block_type = Chars("FB") THEN Chars("END_FUNCTION_BLOCK")
    ELSE IF block_type = Chars("FC") THEN Chars("END_FUNCTION")
    ELSE IF block_type = Chars("OB") THEN Chars("END_ORGANIZATION_BLOCK")
    ELSE Chars("END_DATA_BLOCK")

\* BEGIN\s*\n tried at position p: the start of the group (after the last line
\* break of the white space that follows BEGIN), 0 if no match.
BeginAt(content, p) ==
    LET a == RunEnd(content, p + 5, isspace)
        nl == CHOOSE k \in (p + 5)..(a - 1) :
                content[k] = "\n" /\ \A j \in (k + 1)..(a - 1) : content[j] # "\n"
    IN IF /\ StartsWithAt(content, p, Chars("BEGIN"))
          /\ \E k \in (p + 5)..(a - 1) : content[k] = "\n"
       THEN nl + 1 ELSE 0

\* The cleaning loop of extract_code_section: lines right-stripped, the
\* placeholder comments dropped.
CleanedLines(lines) ==
    join([k \in DOMAIN lines |->
            IF rstrip(lines[k]) # <<>>
               /\ strip(rstrip(lines[k])) \in {Chars("// No code available"),
                                               Chars("// Add your logic here")}
            THEN <<>>
            ELSE <<rstrip(lines[k])>>])

\* Code lines kept with their empty lines at both ends.
KeepEmptyLines(lines) == lines

\* The two while loops of extract_code_section: empty lines off both ends.
RECURSIVE TrimEmptyLines(_)
TrimEmptyLines(lines) ==
    IF lines = <<>> THEN lines
    ELSE IF lines[Len(lines)] = <<>> THEN TrimEmptyLines(SubSeq(lines, 1, Len(lines) - 1))
    ELSE IF lines[1] = <<>> THEN TrimEmptyLines(Tail(lines))
    ELSE lines

\* extract_code_section for a block type parse_scl_header can return.
extract_code_section(content, block_type) ==
    LET M(p) == BeginAt(content, p) # 0
                /\ FindFrom(content, EndMarker(block_type), BeginAt(content, p)) # 0
        p0 == FirstPos(content, M)
        g == BeginAt(content, p0)
        e == FindFrom(content, EndMarker(block_type), g)
    IN IF p0 = 0 THEN <<>>
       ELSE TrimEmptyLines(CleanedLines(split(SubSeq(content, g, e - 1), "\n")))

\* scl_to_json on the text read: the document written.
scl_to_json(scl_content) ==
    Bind(parse_scl_header(scl_content),
         LAMBDA metadata :
           [metadata |-> metadata,
            sections |-> extract_variable_sections(scl_content),
            code |-> extract_code_section(scl_content,
                                          Get(metadata, "blockType", Chars("FB")))])

(***************************************************************************)
(* json_to_scl.py: JSONToSCLConverter                                      *)
(***************************************************************************)

\* s.replace(old, new) for a non-empty old.
RECURSIVE ReplaceAll(_, _, _)
ReplaceAll(s, old, new) ==
    IF Len(s) < Len(old) THEN s
    ELSE IF StartsWithAt(s, 1, old)
    THEN new \o ReplaceAll(From(s, Len(old) + 1), old, new)
    ELSE <<Head(s)>> \o ReplaceAll(Tail(s), old, new)

\* sep.join(parts)
RECURSIVE JoinWith(_, _)
JoinWith(sep, parts) ==
    IF parts = <<>> THEN <<>>
    ELSE IF Len(parts) = 1 THEN Head(parts)
    ELSE Head(parts) \o sep \o JoinWith(sep, Tail(parts))

\* s.strip('"')
RECURSIVE StripQuotes(_)
StripQuotes(s) ==
    IF s # <<>> /\ Head(s) = "\"" THEN StripQuotes(Tail(s))
    ELSE IF s # <<>> /\ s[Len(s)] = "\"" THEN StripQuotes(SubSeq(s, 1, Len(s) - 1))
    ELSE s

\* s.capitalize()
capitalize(s) ==
    IF s = <<>> THEN <<>> ELSE <<UpperChar(Head(s))>> \o lower(Tail(s))

\* scl_section_mapping.get(section_name, "VAR")
scl_section_mapping(section_name) ==
    IF section_name = "input_section" THEN Chars("VAR_INPUT")
    ELSE IF section_name = "output_section" THEN Chars("VAR_OUTPUT")
    ELSE IF section_name = "in_out_section" THEN Chars("VAR_IN_OUT")
    ELSE IF section_name = "static_section" THEN Chars("VAR")
    ELSE IF section_name = "temp_section" THEN Chars("VAR_TEMP")
    ELSE IF section_name = "constant_section" THEN Chars("VAR CONSTANT")
    ELSE Chars("VAR")

\* The static variables generate_variable_section declares under VAR RETAIN.
RetainNames ==
    { Chars("bStationIsDisabled"), Chars("nStep"), Chars("nLastStep"),
      Chars("nActualTypeNumber") }

IsRetain(section_name, variable) ==
    section_name = "static_section" /\ Get(variable, "name", <<>>) \in RetainNames

\* One attribute of get_variable_attributes: the name given the S7_ prefix, a
\* boolean value capitalized.
AttributePart(attr) ==
    (IF startswith(attr[1], Chars("S7_")) THEN attr[1] ELSE Chars("S7_") \o attr[1])
        \o Chars(" := '")
        \o (IF lower(attr[2]) \in {Chars("true"), Chars("false")}
            THEN capitalize(attr[2]) ELSE attr[2])
        \o Chars("'")

\* get_variable_attributes; the attributes of a variable are the pairs of its
\* "attributes" dictionary in order.
get_variable_attributes(variable) ==
    Bind((IF Truthy(Get(variable, "version", <<>>)) /\ Truthy(Get(variable, "datatype", <<>>))
          THEN << Chars("InstructionName := '")
                     \o StripQuotes(Get(variable, "datatype", <<>>)) \o Chars("'"),
                  Chars("LibVersion := '") \o Get(variable, "version", <<>>) \o Chars("'") >>
          ELSE <<>>)
            \o [k \in DOMAIN Get(variable, "attributes", <<>>) |->
                  AttributePart(Get(variable, "attributes", <<>>)[k])],
         LAMBDA attr_parts :
           IF attr_parts # <<>>
           THEN Chars("{ ") \o JoinWith(Chars("; "), attr_parts) \o Chars(" }")
           ELSE <<>>)

\* The declaration line generate_variable_section writes for a variable.
DeclarationLine(var_name, attributes, var_datatype, default_value) ==
    Chars("  ") \o var_name
        \o (IF attributes # <<>> THEN <<" ">> \o attributes ELSE <<>>)
        \o Chars(" : ") \o var_datatype
        \o (IF Truthy(default_value) THEN Chars(" := ") \o default_value ELSE <<>>)
        \o <<";">>

\* The attribute text of the lines of the stSensor definition.
SensorAttributes ==
    Chars("{ ExternalAccessible := 'False'; ExternalVisible := 'False'; ExternalWritable := 'False'}")

SensorMemberLine(name, comment) ==
    Chars("     ") \o Chars(name) \o <<" ">> \o SensorAttributes \o Chars(" : Bool;")
        \o Chars(comment)

\* generate_struct_definition; it is called for stSensor only.  The comments
\* of the reference text are written here without their umlauts.
generate_struct_definition(struct_name) ==
    IF struct_name = Chars("stSensor")
    THEN << Chars("  ") \o struct_name \o <<" ">> \o SensorAttributes
                \o Chars(" : Struct   // Sensordeklaration"),
            SensorMemberLine("bCarrierAtPreStop", "   // Werkstuecktraeger am Vorstopper"),
            SensorMemberLine("bCarrierBehindPreStop",
                             "   // Werkstuecktraeger hinter Vorstopper"),
            SensorMemberLine("bCarrierAtMainStop", "   // Werkstuecktraeger am Hauptstopper"),
            SensorMemberLine("bCarrierBehindMainStop",
                             "   // Werkstuecktraeger hinter Hauptstopper"),
            SensorMemberLine("bTestCylinderHome", ""),
            SensorMemberLine("bTestCylinderWork", ""),
            Chars("  END_STRUCT;") >>
    ELSE << Chars("  ") \o struct_name \o Chars(" : Struct;") >>

\* The lines generate_variable_section writes for one regular variable.
RegularVariableLines(variable) ==
    IF Truthy(Get(variable, "name", <<>>)) /\ Truthy(Get(variable, "datatype", <<>>))
    THEN IF Get(variable, "name", <<>>) = Chars("stSensor")
            /\ Get(variable, "datatype", <<>>) = Chars("Struct")
         THEN generate_struct_definition(Get(variable, "name", <<>>))
         ELSE << DeclarationLine(Get(variable, "name", <<>>),
                                 get_variable_attributes(variable),
                                 Get(variable, "datatype", <<>>),
                                 Get(variable, "default_value", <<>>)) >>
    ELSE <<>>

\* The lines generate_variable_section writes for one RETAIN variable.
RetainVariableLines(variable) ==
    IF Truthy(Get(variable, "name", <<>>)) /\ Truthy(Get(variable, "datatype", <<>>))
    THEN << DeclarationLine(Get(variable, "name", <<>>),
                            get_variable_attributes(variable),
                            Get(variable, "datatype", <<>>),
                            Get(variable, "default_value", <<>>)) >>
    ELSE <<>>

\* A section of generate_variable_section: the keyword, the declarations,
\* END_VAR and an empty line; nothing without variables.
VariableSectionLines(keyword, declarations, variables) ==
    IF variables = <<>> THEN <<>>
    ELSE <<keyword>> \o declarations \o <<Chars("END_VAR"), <<>> >>

\* generate_variable_section
generate_variable_section(section_name, variables) ==
    Bind(SelectSeq(variables, LAMBDA v : ~IsRetain(section_name, v)),
         LAMBDA regular_variables :
           Bind(SelectSeq(variables, LAMBDA v : IsRetain(section_name, v)),
                LAMBDA retain_variables :
                  VariableSectionLines(
                      scl_section_mapping(section_name),
                      join([k \in DOMAIN regular_variables |->
                              RegularVariableLines(regular_variables[k])]),
                      regular_variables)
                  \o VariableSectionLines(
                      Chars("VAR RETAIN"),
                      join([k \in DOMAIN retain_variables |->
                              RetainVariableLines(retain_variables[k])]),
                      retain_variables)))

\* An if/elif chain of replacements: the first pair whose text occurs in the
\* line is replaced, the others are not looked at.
RECURSIVE ReplaceFirstFound(_, _)
ReplaceFirstFound(ln, pairs) ==
    IF pairs = <<>> THEN ln
    ELSE IF Contains(ln, Head(pairs)[1]) THEN ReplaceAll(ln, Head(pairs)[1], Head(pairs)[2])
    ELSE ReplaceFirstFound(ln, Tail(pairs))

\* fix_code_line_issues: incomplete assignments.
FixAssignment(ln) ==
    IF ~Contains(ln, Chars(":= ;")) THEN ln
    ELSE IF Contains(ln, Chars("nSequenceTimeOut"))
    THEN ReplaceAll(ln, Chars(":= ;"), Chars(":= T#8s;"))
    ELSE IF Contains(ln, Chars("Time")) \/ Contains(lower(ln), Chars("time"))
    THEN ReplaceAll(ln, Chars(":= ;"), Chars(":= T#0ms;"))
    ELSE ReplaceAll(ln, Chars(":= ;"), Chars(":= 0;"))

\* fix_code_line_issues: incomplete struct member access.
FixSensor(ln) ==
    IF startswith(ln, Chars("stSensor ")) /\ Contains(ln, Chars(":="))
    THEN ReplaceFirstFound(ln,
           << <<Chars("stSensor      := FALSE;"),
                Chars("#stSensor.bCarrierAtPreStop := FALSE;")>>,
              <<Chars("stSensor  := FALSE;"),
                Chars("#stSensor.bCarrierBehindPreStop := FALSE;")>>,
              <<Chars("stSensor     := FALSE;"),
                Chars("#stSensor.bCarrierAtMainStop := FALSE;")>>,
              <<Chars("stSensor := FALSE;"),
                Chars("#stSensor.bCarrierBehindMainStop := FALSE;")>>,
              <<Chars("stSensor      := TRUE;"),
                Chars("#stSensor.bTestCylinderHome := TRUE;")>>,
              <<Chars("stSensor      := FALSE;"),
                Chars("#stSensor.bTestCylinderWork := FALSE;")>> >>)
    ELSE ln

\* fix_code_line_issues: array access patterns for IO_udtCellData.
FixCellData(ln) ==
    IF Contains(ln, Chars("IO_udtCellData")) /\ Contains(ln, Chars(":= FALSE;"))
    THEN ReplaceFirstFound(ln,
           << <<Chars("IO_udtCellData       := FALSE;"),
                Chars("#IO_udtCellData.aStationError[#I_nStationNumber] := FALSE;")>>,
              <<Chars("IO_udtCellData     := FALSE;"),
                Chars("#IO_udtCellData.aStationWarning[#I_nStationNumber] := FALSE;")>>,
              <<Chars("IO_udtCellData := FALSE;"),
                Chars("#IO_udtCellData.aStationACKRequired[#I_nStationNumber] := FALSE;")>> >>)
    ELSE ln

\* fix_code_line_issues: incomplete IF conditions.
FixCondition(ln) ==
    IF Contains(ln, Chars("IO_udtCellData =")) /\ ~Contains(ln, Chars("IO_udtCellData.n"))
    THEN ReplaceAll(ln, Chars("IO_udtCellData ="), Chars("IO_udtCellData.nMode ="))
    ELSE ln

\* fix_code_line_issues: missing constants.
FixMode(ln) ==
    IF /\ Contains(ln, Chars("IO_udtCellData.nMode = "))
       /\ ~Contains(ln, Chars("\"gc_"))
       /\ Contains(ln, Chars("NOT (IO_udtCellData.nMode = )"))
    THEN ReplaceAll(ln, Chars("IO_udtCellData.nMode = )"),
                    Chars("IO_udtCellData.nMode = \"gc_nSetupMode\")"))
    ELSE ln

\* region_names of get_region_name_from_context.
region_names ==
    << Chars("REGION Initialization"), Chars("    REGION Sensor declaration"),
       Chars("    REGION Times"), Chars("REGION Mode"), Chars("REGION Station alarms"),
       Chars("REGION Ident system"), Chars("REGION Shiftregister and carrier logistics"),
       Chars("    REGION Station is empty"), Chars("REGION Bad parts in a row"),
       Chars("REGION Buttons and switches"), Chars("    REGION Station enable/disable"),
       Chars("    REGION ... Additional buttons"), Chars("REGION Sensor checks"),
       Chars("REGION Mechanical free"), Chars("REGION Sequence"),
       Chars("    REGION Homing and syncic"), Chars("    REGION Main sequence"),
       Chars("        REGION Start"), Chars("        REGION Steps") >>

\* get_region_name_from_context with _current_region_index already advanced
\* (zero-based).
get_region_name_from_context(region_index) ==
    IF region_index < Len(region_names) THEN region_names[region_index + 1]
    ELSE Chars("REGION")

\* fix_code_line_issues: the line returned and _current_region_index after it.
\* _expecting_function_call is never set, so a lone ";" is left as it is.
fix_code_line_issues(ln, region_index) ==
    IF ln = <<>> \/ startswith(ln, Chars("//")) \/ startswith(ln, Chars("(*"))
    THEN [line |-> ln, region_index |-> region_index]
    ELSE IF strip(ln) = Chars("REGION")
    THEN [line |-> get_region_name_from_context(region_index + 1),
          region_index |-> region_index + 1]
    ELSE [line |-> FixMode(FixCondition(FixCellData(FixSensor(FixAssignment(ln))))),
          region_index |-> region_index]

\* "  " * indent_level
Indent(indent_level) == Spaces(2 * indent_level)

\* Whether format_code_lines indents the lines after this one.
OpensBlock(stripped_line) ==
    \/ startswith(stripped_line, Chars("REGION"))
    \/ startswith(stripped_line, Chars("IF "))
    \/ startswith(stripped_line, Chars("FOR "))
    \/ startswith(stripped_line, Chars("WHILE "))
    \/ startswith(stripped_line, Chars("CASE "))

\* The body of the loop of format_code_lines for the fixed line of index i
\* (one-based) of n: the lines appended and the indentation level after it.
FormattedLine(stripped_line, i, n, indent_level) ==
    IF stripped_line = Chars("REGION Sensor declaration")
    THEN [lines |-> << Indent(indent_level) \o stripped_line,
                       Indent(indent_level + 1) \o Chars("// e.g.") >>,
          indent_level |-> indent_level + 1]
    ELSE IF startswith(stripped_line, Chars("#stSensor.bTestCylinderWork")) /\ i < n
    THEN [lines |-> << Indent(indent_level) \o stripped_line,
                       Indent(indent_level) \o Chars("//... Additional sensor inputs") >>,
          indent_level |-> indent_level]
    ELSE IF stripped_line = Chars("REGION Station alarms")
    THEN [lines |-> << Indent(indent_level) \o stripped_line,
                       Indent(indent_level + 1)
                         \o Chars("// Initialize IO for alarm, warning and station ACK required") >>,
          indent_level |-> indent_level + 1]
    ELSE Bind(IF startswith(stripped_line, Chars("END_")) /\ indent_level > 0
              THEN indent_level - 1 ELSE indent_level,
              LAMBDA level :
                [lines |-> << Indent(level) \o stripped_line >>,
                 indent_level |-> IF OpensBlock(stripped_line) THEN level + 1 ELSE level])

\* The loop of format_code_lines from index i.
RECURSIVE FormatLoop(_, _, _, _, _)
FormatLoop(lines, i, indent_level, region_index, formatted_lines) ==
    IF i > Len(lines) THEN formatted_lines
    ELSE IF strip(lines[i]) = <<>>
    THEN FormatLoop(lines, i + 1, indent_level, region_index, Append(formatted_lines, <<>>))
    ELSE Bind(fix_code_line_issues(strip(lines[i]), region_index),
              LAMBDA fixed :
                Bind(FormattedLine(fixed.line, i, Len(lines), indent_level),
                     LAMBDA r : FormatLoop(lines, i + 1, r.indent_level, fixed.region_index,
                                           formatted_lines \o r.lines)))

\* format_code_lines; _current_region_index is reset to -1.
format_code_lines(lines) == FormatLoop(lines, 1, 0, -1, <<>>)

\* section_order of json_to_scl.
SclSectionOrder ==
    << "input_section", "output_section", "in_out_section",
       "static_section", "temp_section", "constant_section" >>

\* The lines json_to_scl writes between BEGIN and the end marker.
SclCodeLines(lines) ==
    IF lines # <<>> THEN format_code_lines(lines)
    ELSE << Chars("  // No code available"), Chars("  // Add your logic here") >>

\* json_to_scl on a canonical document that was read: the text written.
json_to_scl(json_data_in) ==
    Bind(Get(json_data_in, "sections", <<>>),
         LAMBDA sections :
           JoinWith(<<"\n">>,
               << Chars("FUNCTION_BLOCK \"")
                    \o Str(Or(Get(Get(json_data_in, "metadata", <<>>), "blockName", <<>>),
                              Get(Get(json_data_in, "metadata", <<>>), "name",
                                  Chars("UnknownBlock"))))
                    \o <<"\"">>,
                  Chars("{ S7_Optimized_Access := 'TRUE' }"),
                  <<>> >>
               \o join([k \in DOMAIN SclSectionOrder |->
                          IF Chars(SclSectionOrder[k]) \in DOMAIN sections
                          THEN generate_variable_section(SclSectionOrder[k],
                                                         sections[Chars(SclSectionOrder[k])])
                          ELSE <<>>])
               \o << Chars("BEGIN"), <<>> >>
               \o SclCodeLines(Get(json_data_in, "code", <<>>))
               \o << <<>>, Chars("END_FUNCTION_BLOCK") >>))

(***************************************************************************)
(* udt_converter.py: UDTConverter.  A member is a record with the keys of   *)
(* the dict the source builds; udt_data is the dict of the whole type.      *)
(***************************************************************************)

UdtData(name, version, author, family, description, members) ==
    [name |-> name, version |-> version, author |-> author, family |-> family,
     description |-> description, members |-> members]

EmptyUdtData == UdtData(<<>>, Chars("0.1"), <<>>, <<>>, <<>>, <<>>)

\* (?:\s*//\s*(.+))?$ tried at position p: the comment, stripped as the caller
\* strips it; without the group only the end of the line matches.
CommentAt(s, p) ==
    Bind(RunEnd(s, p, isspace),
         LAMBDA q :
           IF StartsWithAt(s, q, Chars("//")) /\ q + 2 <= Len(s)
           THEN [found |-> TRUE, comment |-> strip(From(s, q + 2))]
           ELSE IF p = Len(s) + 1 THEN [found |-> TRUE, comment |-> <<>>]
           ELSE NoMatch)

\* (?:\s*;)?(?:\s*//\s*(.+))?$ tried at position p
TailAt(s, p) ==
    Bind(RunEnd(s, p, isspace),
         LAMBDA q :
           IF q <= Len(s) /\ s[q] = ";" /\ CommentAt(s, q + 1).found
           THEN CommentAt(s, q + 1)
           ELSE CommentAt(s, p))

\* The first span the matcher finds for \s*(lazy group) followed by a rest:
\* the white space as long as possible, then the group as short as possible.
\* from..ws_end are the starts the white space leaves, Ok(b, e) the spans b..e
\* that match; <<0, 0>> if none.
FirstSpan(s, from, ws_end, Ok(_, _)) ==
    Bind({ span \in (from..ws_end) \X (from..Len(s)) : span[1] <= span[2] /\ Ok(span[1], span[2]) },
         LAMBDA spans :
           IF spans = {} THEN <<0, 0>>
           ELSE CHOOSE span \in spans :
                  \A other \in spans :
                     \/ other[1] < span[1]
                     \/ other[1] = span[1] /\ other[2] >= span[2])

\* (?:\s*:=\s*([^;]+?))?(?:\s*;)?(?:\s*//\s*(.+))?$ tried at position p
InitialAt(s, p) ==
    LET q == RunEnd(s, p, isspace)
        Ok(b, e) == (\A k \in b..e : s[k] # ";") /\ TailAt(s, e + 1).found
        span == IF StartsWithAt(s, q, Chars(":="))
                THEN FirstSpan(s, q + 2, RunEnd(s, q + 2, isspace), Ok)
                ELSE <<0, 0>>
    IN IF span # <<0, 0>>
       THEN [found |-> TRUE, initial_value |-> strip(SubSeq(s, span[1], span[2])),
             comment |-> TailAt(s, span[2] + 1).comment]
       ELSE IF TailAt(s, p).found
       THEN [found |-> TRUE, initial_value |-> <<>>, comment |-> TailAt(s, p).comment]
       ELSE NoMatch

\* re.match(r'(\w+)\s*:\s*([^;:=]+?)(?:\s*:=\s*([^;]+?))?(?:\s*;)?(?:\s*//\s*(.+))?$', line)
\* with the groups as _parse_struct_members reads them.
MemberMatch(s) ==
    LET n == RunEnd(s, 1, isword)
        c == RunEnd(s, n, isspace)
        Ok(b, e) == (\A k \in b..e : s[k] \notin {";", ":", "="}) /\ InitialAt(s, e + 1).found
        span == IF n > 1 /\ c <= Len(s) /\ s[c] = ":"
                THEN FirstSpan(s, c + 1, RunEnd(s, c + 1, isspace), Ok)
                ELSE <<0, 0>>
    IN IF span = <<0, 0>> THEN NoMatch
       ELSE [found |-> TRUE,
             name |-> SubSeq(s, 1, n - 1),
             datatype |-> strip(SubSeq(s, span[1], span[2])),
             initial_value |-> InitialAt(s, span[2] + 1).initial_value,
             comment |-> InitialAt(s, span[2] + 1).comment]

\* re.match(r'Array\[(.+?)\]\s+of\s+(.+)', member_type): the bounds between
\* the brackets and the base type.
ArrayMatch(member_type) ==
    LET Closes(r) ==
            /\ member_type[r] = "]"
            /\ r > Len(Chars("Array[")) + 1
            /\ Bind(RunEnd(member_type, r + 1, isspace),
                    LAMBDA a :
                      /\ a > r + 1
                      /\ StartsWithAt(member_type, a, Chars("of"))
                      /\ Bind(RunEnd(member_type, a + 2, isspace),
                              LAMBDA b : b > a + 2 /\ b <= Len(member_type)))
        r == FirstPos(member_type, Closes)
    IN IF startswith(member_type, Chars("Array[")) /\ r # 0
       THEN [found |-> TRUE,
             bounds |-> SubSeq(member_type, Len(Chars("Array[")) + 1, r - 1),
             base_type |-> From(member_type,
                                RunEnd(member_type,
                                       RunEnd(member_type, r + 1, isspace) + 2, isspace))]
       ELSE NoMatch

\* The member dict _parse_struct_members builds for a matched line; nested is
\* the result of the recursive call for a STRUCT.
ParsedMember(m, nested) ==
    Bind([name |-> m.name, datatype |-> m.datatype,
          initial_value |-> m.initial_value, comment |-> m.comment],
         LAMBDA member_data :
           Bind(IF m.datatype = Chars("STRUCT")
                THEN Put(Put(member_data, "nested_members", nested),
                         "datatype", Chars("Struct"))
                ELSE member_data,
                LAMBDA with_struct :
                  IF ArrayMatch(m.datatype).found
                  THEN Put(Put(with_struct, "datatype", ArrayMatch(m.datatype).base_type),
                           "array_bounds", ArrayMatch(m.datatype).bounds)
                  ELSE with_struct))

\* _parse_struct_members from line i (one-based): the members and the line the
\* loop stops at.
RECURSIVE ParseStructMembers(_, _, _)
ParseStructMembers(lines, i, members) ==
    IF i > Len(lines) \/ startswith(strip(lines[i]), Chars("END_STRUCT"))
    THEN [members |-> members, current_line |-> i]
    ELSE IF strip(lines[i]) = <<>> \/ startswith(strip(lines[i]), Chars("//"))
    THEN ParseStructMembers(lines, i + 1, members)
    ELSE Bind(MemberMatch(strip(lines[i])),
              LAMBDA m :
                IF ~m.found THEN ParseStructMembers(lines, i + 1, members)
                ELSE IF m.datatype = Chars("STRUCT")
                THEN Bind(ParseStructMembers(lines, i + 1, <<>>),
                          LAMBDA nested :
                            ParseStructMembers(lines, nested.current_line + 1,
                                Append(members, ParsedMember(m, nested.members))))
                ELSE ParseStructMembers(lines, i + 1,
                                        Append(members, ParsedMember(m, <<>>))))

\* re.match(r'VERSION\s*:\s*(\S+)', line)
VersionMatch(ln) ==
    LET c == RunEnd(ln, Len(Chars("VERSION")) + 1, isspace)
        v == RunEnd(ln, c + 1, isspace)
        NotSpace(x) == ~isspace(x)
    IN IF startswith(ln, Chars("VERSION")) /\ c <= Len(ln) /\ ln[c] = ":" /\ v <= Len(ln)
       THEN [found |-> TRUE, version |-> SubSeq(ln, v, RunEnd(ln, v, NotSpace) - 1)]
       ELSE NoMatch

\* The metadata branch of _parse_udt_content for a comment line.
ParsedComment(udt_data, comment) ==
    IF startswith(comment, Chars("Author:"))
    THEN [udt_data EXCEPT !.author = strip(From(comment, Len(Chars("Author:")) + 1))]
    ELSE IF startswith(comment, Chars("Family:"))
    THEN [udt_data EXCEPT !.family = strip(From(comment, Len(Chars("Family:")) + 1))]
    ELSE IF udt_data.description = <<>>
    THEN [udt_data EXCEPT !.description = comment]
    ELSE udt_data

\* The loop of _parse_udt_content from line i (one-based).
RECURSIVE ParseUdtLines(_, _, _)
ParseUdtLines(lines, i, udt_data) ==
    IF i > Len(lines) THEN udt_data
    ELSE Bind(strip(lines[i]),
              LAMBDA ln :
                IF startswith(ln, Chars("TYPE"))
                THEN ParseUdtLines(lines, i + 1,
                        IF HeaderAt(ln, Chars("TYPE"), 1).found
                        THEN [udt_data EXCEPT !.name = HeaderAt(ln, Chars("TYPE"), 1).name]
                        ELSE udt_data)
                ELSE IF startswith(ln, Chars("VERSION"))
                THEN ParseUdtLines(lines, i + 1,
                        IF VersionMatch(ln).found
                        THEN [udt_data EXCEPT !.version = VersionMatch(ln).version]
                        ELSE udt_data)
                ELSE IF startswith(ln, Chars("//"))
                THEN ParseUdtLines(lines, i + 1, ParsedComment(udt_data, strip(From(ln, 3))))
                ELSE IF ln = Chars("STRUCT")
                THEN Bind(ParseStructMembers(lines, i + 1, <<>>),
                          LAMBDA parsed :
                            ParseUdtLines(lines, parsed.current_line + 1,
                                          [udt_data EXCEPT !.members = parsed.members]))
                ELSE ParseUdtLines(lines, i + 1, udt_data))

\* _parse_udt_content
parse_udt_content(content) == ParseUdtLines(split(content, "\n"), 1, EmptyUdtData)

\* re.match(r'\[(\d+)\.\.(\d+)\]', array_bounds)
BoundsMatch(array_bounds) ==
    LET d1 == RunEnd(array_bounds, 2, isdigit)
        d2 == RunEnd(array_bounds, d1 + 2, isdigit)
    IN IF /\ startswith(array_bounds, <<"[">>)
          /\ d1 > 2
          /\ StartsWithAt(array_bounds, d1, Chars(".."))
          /\ d2 > d1 + 2
          /\ d2 <= Len(array_bounds)
          /\ array_bounds[d2] = "]"
       THEN [found |-> TRUE, lower |-> SubSeq(array_bounds, 2, d1 - 1),
             upper |-> SubSeq(array_bounds, d1 + 2, d2 - 1)]
       ELSE NoMatch

\* An element below Sections: the xmlns attribute set on Sections puts it and
\* its descendants in the interface namespace of the written file.
UdtElem(tag, attrs, children, text) == Elem(tag, InterfaceNamespace, attrs, children, text)

\* The ArrayBounds, StartValue and Comment children _add_member_xml appends.
MemberExtras(member) ==
    (IF Get(member, "array_bounds", <<>>) # <<>>
     THEN << UdtElem("ArrayBounds", NoAttrs,
                     IF BoundsMatch(member.array_bounds).found
                     THEN << UdtElem("Dimension",
                                     [Lower |-> BoundsMatch(member.array_bounds).lower,
                                      Upper |-> BoundsMatch(member.array_bounds).upper],
                                     <<>>, <<>>) >>
                     ELSE <<>>,
                     <<>>) >>
     ELSE <<>>)
    \o (IF Get(member, "initial_value", <<>>) # <<>>
        THEN << UdtElem("StartValue", NoAttrs, <<>>, member.initial_value) >>
        ELSE <<>>)
    \o (IF Get(member, "comment", <<>>) # <<>>
        THEN << UdtElem("Comment", NoAttrs, <<>>, member.comment) >>
        ELSE <<>>)

\* _add_member_xml: the Member element appended to the parent.
RECURSIVE add_member_xml(_)
add_member_xml(member) ==
    IF Get(member, "nested_members", <<>>) # <<>>
    THEN UdtElem("Member", [Name |-> member.name, Datatype |-> Chars("Struct")],
                 [k \in DOMAIN member.nested_members |->
                    add_member_xml(member.nested_members[k])] \o MemberExtras(member),
                 <<>>)
    ELSE UdtElem("Member", [Name |-> member.name, Datatype |-> member.datatype],
                 MemberExtras(member), <<>>)

Cultures == << Chars("en-US"), Chars("de-DE"), Chars("zh-CN"), Chars("hu-HU") >>

\* hex(2 + index)[2:].upper() for the four cultures
CultureId(k) == IntToStr(k + 1)

\* The MultilingualText elements of the ObjectList: the comment, if the type
\* has a description, and the title.
UdtTexts(description) ==
    (IF description # <<>>
     THEN << Elem("MultilingualText", "",
                  [ID |-> Chars("1"), CompositionName |-> Chars("Comment")],
                  << Elem("ObjectList", "", NoAttrs,
                          [k \in DOMAIN Cultures |->
                             Elem("MultilingualTextItem", "",
                                  [ID |-> CultureId(k), CompositionName |-> Chars("Items")],
                                  << Elem("AttributeList", "", NoAttrs,
                                          << TextElem("Culture", Cultures[k]),
                                             TextElem("Text", description) >>, <<>>) >>,
                                  <<>>)],
                          <<>>) >>,
                  <<>>) >>
     ELSE <<>>)
    \o << Elem("MultilingualText", "",
               [ID |-> Chars("10"), CompositionName |-> Chars("Title")],
               << Elem("ObjectList", "", NoAttrs,
                       << Elem("MultilingualTextItem", "",
                               [ID |-> Chars("11"), CompositionName |-> Chars("Items")],
                               << Elem("AttributeList", "", NoAttrs,
                                       << TextElem("Culture", Chars("en-US")),
                                          TextElem("Text", <<>>) >>, <<>>) >>,
                               <<>>) >>,
                       <<>>) >>,
               <<>>) >>

\* _create_udt_xml as _write_formatted_xml writes it; the time of writing is
\* a fixed text.
create_udt_xml(udt_data, engineering_version) ==
    Elem("Document", "", NoAttrs,
         << Elem("Engineering", "", [version |-> engineering_version], <<>>, <<>>),
            Elem("DocumentInfo", "", NoAttrs,
                 << TextElem("Created", Chars("2025-01-01T00:00:00.000000Z")),
                    TextElem("ExportSetting", Chars("None")) >>, <<>>),
            Elem("SW.Types.PlcStruct", "", [ID |-> Chars("0")],
                 << Elem("AttributeList", "", NoAttrs,
                         << TextElem("Name", udt_data.name),
                            Elem("Interface", "", NoAttrs,
                                 << UdtElem("Sections", NoAttrs,
                                            << UdtElem("Section", [Name |-> Chars("None")],
                                                       [k \in DOMAIN udt_data.members |->
                                                          add_member_xml(udt_data.members[k])],
                                                       <<>>) >>,
                                            <<>>) >>,
                                 <<>>),
                            TextElem("Namespace", <<>>) >>,
                         <<>>),
                    Elem("ObjectList", "", NoAttrs, UdtTexts(udt_data.description), <<>>) >>,
                 <<>>) >>,
         <<>>)

\* udt_to_xml on the text of a .udt file: the document written.
udt_to_xml(udt_content) == create_udt_xml(parse_udt_content(udt_content), Chars("V20"))

\* The comment _extract_member_data reads: the first child with Comment in its
\* tag, else a Comment child in no namespace; its text, else its first
\* multilingual text.
MemberComment(member_element) ==
    LET P(x) == Contains(Chars(x.tag), Chars("Comment"))
        comment_elem == IF FirstWhere(member_element.children, P) # NoElem
                        THEN FirstWhere(member_element.children, P)
                        ELSE Find(member_element, "Comment")
        multilingual == FindDeep(comment_elem, "MultilingualTextItem")
        attribute_list == Find(multilingual, "AttributeList")
    IN IF comment_elem = NoElem THEN <<>>
       ELSE IF comment_elem.text # <<>> THEN strip(comment_elem.text)
       ELSE IF multilingual = NoElem \/ attribute_list = NoElem THEN <<>>
       ELSE strip(Find(attribute_list, "Text").text)

\* The children with a tag in no namespace: element.findall(tag).
FindAll(e, tag) == SelectSeq(e.children, LAMBDA x : x.tag = tag /\ x.ns = "")

\* [lower..upper] for every Dimension of an ArrayBounds element
BoundsText(array_bounds) ==
    Bind(FindAll(array_bounds, "Dimension"),
         LAMBDA dimensions :
           join([k \in DOMAIN dimensions |->
                   <<"[">> \o Attr(dimensions[k], "Lower", Chars("0")) \o Chars("..")
                       \o Attr(dimensions[k], "Upper", Chars("0")) \o <<"]">>]))

\* The attributes dict: the text of each child of a direct AttributeList.
MemberAttributes(member_element) ==
    Bind(IF Find(member_element, "AttributeList") = NoElem THEN <<>>
         ELSE Find(member_element, "AttributeList").children,
         LAMBDA attrs :
           [t \in {attrs[k].tag : k \in DOMAIN attrs} |->
              attrs[CHOOSE k \in DOMAIN attrs :
                      attrs[k].tag = t /\ \A j \in DOMAIN attrs : attrs[j].tag = t => j <= k].text])

\* _extract_member_data
RECURSIVE extract_member_data(_)
extract_member_data(member_element) ==
    Bind([name |-> Attr(member_element, "Name", <<>>),
          datatype |-> Attr(member_element, "Datatype", Chars("Bool")),
          comment |-> MemberComment(member_element),
          initial_value |-> IF Find(member_element, "StartValue") = NoElem THEN <<>>
                            ELSE Find(member_element, "StartValue").text,
          attributes |-> MemberAttributes(member_element)],
         LAMBDA member_data :
           Bind(IF Find(member_element, "Member") # NoElem
                THEN Put(member_data, "nested_members",
                         Bind(FindAll(member_element, "Member"),
                              LAMBDA nested :
                                [k \in DOMAIN nested |-> extract_member_data(nested[k])]))
                ELSE member_data,
                LAMBDA with_nested :
                  IF Find(member_element, "ArrayBounds") # NoElem
                     /\ BoundsText(Find(member_element, "ArrayBounds")) # <<>>
                  THEN Put(with_nested, "array_bounds",
                           BoundsText(Find(member_element, "ArrayBounds")))
                  ELSE with_nested))

\* The descendants of an element with a tag in a namespace:
\* element.findall('.//{ns}tag'), or './/tag' for no namespace.
FindAllDeep(e, ns, tag) == SelectSeq(Descendants(e), LAMBDA x : x.tag = tag /\ x.ns = ns)

\* The members one loop of _extract_udt_data appends for every Member below
\* every Section of that namespace; with dedupe a member equal to one in the
\* list is skipped.
RECURSIVE AppendMembers(_, _, _, _)
AppendMembers(members, found, section_name, dedupe) ==
    IF found = <<>> THEN members
    ELSE Bind(Put(extract_member_data(Head(found)), "section", section_name),
              LAMBDA member_data :
                AppendMembers(IF dedupe /\ member_data \in Range(members) THEN members
                              ELSE Append(members, member_data),
                              Tail(found), section_name, dedupe))

RECURSIVE SectionMembers(_, _, _, _)
SectionMembers(members, sections, ns, dedupe) ==
    IF sections = <<>> THEN members
    ELSE SectionMembers(AppendMembers(members, FindAllDeep(Head(sections), ns, "Member"),
                                      Attr(Head(sections), "Name", <<>>), dedupe),
                        Tail(sections), ns, dedupe)

\* interface.find('.//Sections') or interface.find('.//{...}Sections'): an
\* element without children counts as false.
InterfaceSectionsOf(interface) ==
    LET plain == FindDeep(interface, "Sections")
        P(x) == x.tag = "Sections" /\ x.ns = InterfaceNamespace
    IN IF plain # NoElem /\ plain.children # <<>> THEN plain
       ELSE FirstWhere(Descendants(interface), P)

\* The members _extract_udt_data collects.
ExtractedMembers(udt_element) ==
    LET interface == FindDeep(udt_element, "Interface")
        sections == IF interface = NoElem THEN NoElem ELSE InterfaceSectionsOf(interface)
        first == IF sections = NoElem THEN <<>>
                 ELSE SectionMembers(
                          SectionMembers(<<>>,
                                         FindAllDeep(sections, InterfaceNamespace, "Section"),
                                         InterfaceNamespace, FALSE),
                          FindAllDeep(sections, "", "Section"), "", TRUE)
        direct == FindDeep(udt_element, "Sections")
    IN IF first # <<>> \/ direct = NoElem THEN first
       ELSE Bind(FindAll(direct, "Section"),
                 LAMBDA found :
                   join([k \in DOMAIN found |->
                           Bind(FindAll(found[k], "Member"),
                                LAMBDA members :
                                  [j \in DOMAIN members |->
                                     Put(extract_member_data(members[j]), "section",
                                         Attr(found[k], "Name", <<>>))])]))

\* The description _extract_udt_data reads from the Comment text: the en-US
\* item, or the first item while the description is empty.
RECURSIVE CommentText(_, _)
CommentText(items, description) ==
    IF items = <<>> THEN description
    ELSE LET attribute_list == Find(Head(items), "AttributeList")
             culture == IF attribute_list = NoElem THEN NoElem
                        ELSE Find(attribute_list, "Culture")
             text == IF attribute_list = NoElem THEN NoElem ELSE Find(attribute_list, "Text")
         IN IF culture # NoElem /\ text # NoElem
               /\ (culture.text = Chars("en-US") \/ description = <<>>)
            THEN CommentText(Tail(items), text.text)
            ELSE CommentText(Tail(items), description)

UdtDescription(udt_element) ==
    LET P(x) == /\ x.tag = "MultilingualText" /\ x.ns = ""
                /\ Attr(x, "CompositionName", <<>>) = Chars("Comment")
        comment == FirstWhere(Descendants(udt_element), P)
    IN IF comment = NoElem THEN <<>>
       ELSE CommentText(FindAllDeep(comment, "", "MultilingualTextItem"), <<>>)

\* The last child of the AttributeList with a tag, as the loop over the
\* attributes leaves it: its text, or the default for no text; the initial
\* value without such a child.
LastAttribute(attrs, tag, initial, default) ==
    Bind(FindAll(attrs, tag),
         LAMBDA found :
           IF found = <<>> THEN initial
           ELSE IF found[Len(found)].text = <<>> THEN default
           ELSE found[Len(found)].text)

\* _extract_udt_data
extract_udt_data(udt_element) ==
    Bind(IF Find(udt_element, "AttributeList") = NoElem THEN NoElem
         ELSE [Find(udt_element, "AttributeList") EXCEPT
                  !.children = SelectSeq(@, LAMBDA x : x.ns = "")],
         LAMBDA attrs :
           UdtData(IF attrs = NoElem THEN <<>>
                   ELSE LastAttribute(attrs, "Name", <<>>, Chars("UnknownUDT")),
                   IF attrs = NoElem THEN Chars("0.1")
                   ELSE LastAttribute(attrs, "Version", Chars("0.1"), Chars("0.1")),
                   IF attrs = NoElem THEN <<>> ELSE LastAttribute(attrs, "Author", <<>>, <<>>),
                   IF attrs = NoElem THEN <<>> ELSE LastAttribute(attrs, "Family", <<>>, <<>>),
                   UdtDescription(udt_element),
                   ExtractedMembers(udt_element)))

\* _format_member: the lines of one member.
RECURSIVE format_member(_, _)
format_member(member, indent) ==
    IF Get(member, "nested_members", <<>>) # <<>>
    THEN << Spaces(indent) \o member.name \o Chars(" : STRUCT")
               \o (IF Get(member, "comment", <<>>) # <<>>
                   THEN Chars("   // ") \o member.comment ELSE <<>>) >>
         \o join([k \in DOMAIN member.nested_members |->
                    format_member(member.nested_members[k], indent + 3)])
         \o << Spaces(indent) \o Chars("END_STRUCT;") >>
    ELSE << Spaces(indent) \o member.name \o Chars(" : ")
               \o (IF Get(member, "array_bounds", <<>>) # <<>>
                   THEN Chars("Array") \o member.array_bounds \o Chars(" of ")
                   ELSE <<>>)
               \o member.datatype
               \o (IF Get(member, "initial_value", <<>>) # <<>>
                   THEN Chars(" := ") \o member.initial_value ELSE <<>>)
               \o <<";">>
               \o (IF Get(member, "comment", <<>>) # <<>>
                   THEN Chars("   // ") \o member.comment ELSE <<>>) >>

\* _generate_udt_content
generate_udt_content(udt_data) ==
    JoinWith(<<"\n">>,
        << Chars("TYPE \"") \o udt_data.name \o <<"\"">>,
           Chars("VERSION : ") \o udt_data.version >>
        \o (IF udt_data.author # <<>>
            THEN << Chars("   // Author: ") \o udt_data.author >> ELSE <<>>)
        \o (IF udt_data.family # <<>>
            THEN << Chars("   // Family: ") \o udt_data.family >> ELSE <<>>)
        \o (IF udt_data.description # <<>>
            THEN << Chars("   // ") \o udt_data.description >> ELSE <<>>)
        \o << Chars("   STRUCT") >>
        \o join([k \in DOMAIN udt_data.members |-> format_member(udt_data.members[k], 6)])
        \o << Chars("   END_STRUCT;"), <<>>, Chars("END_TYPE"), <<>>, <<>> >>)

\* xml_to_udt on a parsed document: the text written, or an error raised when
\* the document holds no PlcStruct.
xml_to_udt(root) ==
    Bind(IF FindDeep(root, "SW.Types.PlcStruct") # NoElem
         THEN FindDeep(root, "SW.Types.PlcStruct")
         ELSE FindDeep(root, "SW.DataTypes.PlcStruct"),
         LAMBDA udt_element :
           IF udt_element = NoElem THEN [returned |-> FALSE]
           ELSE [returned |-> TRUE,
                 text |-> generate_udt_content(extract_udt_data(udt_element))])

(***************************************************************************)
(* Inputs                                                                  *)
(***************************************************************************)

\* Longest line built from LexAlphabet.
MaxLineLen == 3
\* Most lines in a code body.
MaxCodeLines == 2
\* Most generations run on the shared generator.
MaxGenerations == 2
\* Most UIds in the document of a concurrent caller.
MaxConcurrentUIds == 4

BoundedSeq(S, n) == UNION {[1..k -> S] : k \in 0..n}

\* Characters covering every branch of the scan loop: "#" and letters (also the
\* letters of the operators TO and OR), a digit, blanks, operators, a quote and
\* a character no branch recognises.
LexAlphabet == {"#", "a", "T", "O", "r", "1", " ", ".", ":", "=", "\"", "@"}

SampleLines ==
    { Chars("#tag.field"), Chars("#x := 1;"), Chars("\"gc_Max\""),
      Chars("  #x := 1;"), Chars("IF #a  <  T#8s THEN"), Chars("if true then"),
      Chars("#a := 'it&s';\t") }

LexLines == BoundedSeq(LexAlphabet, MaxLineLen) \cup SampleLines

\* A program whose runs of consecutive lines are the code bodies handed to the
\* generator: member access, a quoted name, indentation, runs of blanks, a
\* time literal, an empty line.
SampleProgram ==
    << Chars("#tag.field"), Chars("\"gc_Max\""), Chars("  #x := 1;"),
       Chars("IF #a  <  T#8s THEN"), <<>>, Chars("#x := 1;") >>

CodeBodies ==
    { SubSeq(SampleProgram, w[1], w[2]) :
        w \in { v \in (1..Len(SampleProgram)) \X (0..Len(SampleProgram)) :
                    v[2] - v[1] + 1 \in 0..MaxCodeLines } }

NoDoc == [kind |-> "none"]

\* The callers of ConversionHandlers.create_structured_text_xml that share
\* one handlers instance, and the code bodies they hand over.
Callers == {1, 2}

ConcurrentBodies ==
    { b \in CodeBodies :
        create_structured_text_xml(b, UidStart).counter - UidStart <= MaxConcurrentUIds }

(***************************************************************************)
(* The lexer on its own                                                    *)
(***************************************************************************)

LexerInit ==
    /\ line \in LexLines
    /\ tokens = <<>>
    /\ pc = "lex"
    /\ code_lines = <<>>
    /\ uid_counter = InitialUid
    /\ structured_text = NoElem
    /\ extracted = <<>>
    /\ generations = 0
    /\ source = NoDoc
    /\ json_data = NoDoc
    /\ xml_doc = NoElem
    /\ result = "none"
    /\ conversions = 0
    /\ entry = "none"
    /\ scl_text = <<>>
    /\ callers = <<>>
    /\ sessions = <<>>
    /\ lock = 0
    /\ tasks = <<>>
    /\ now = 0
    /\ created = 0

\* ConversionHandlers.tokenize_scl_line -> TIAXMLGenerator.tokenize_scl_line
TokenizeLine ==
    /\ pc = "lex"
    /\ tokens' = tokenize_scl_line(line)
    /\ pc' = "lexed"
    /\ UNCHANGED <<line, code_lines, uid_counter, structured_text, extracted,
                   generations, source, json_data, xml_doc, result, conversions, entry,
                   scl_text, callers, sessions, lock, tasks, now, created>>

LexerNext == TokenizeLine

SpecLexer == LexerInit /\ [][LexerNext]_vars

(***************************************************************************)
(* StructuredText generation on the handlers' shared generator, and the    *)
(* extraction of the generated element                                     *)
(***************************************************************************)

GenInit ==
    /\ line = <<>>
    /\ tokens = <<>>
    /\ pc = "idle"
    /\ code_lines = <<>>
    /\ uid_counter = InitialUid
    /\ structured_text = NoElem
    /\ extracted = <<>>
    /\ generations = 0
    /\ source = NoDoc
    /\ json_data = NoDoc
    /\ xml_doc = NoElem
    /\ result = "none"
    /\ conversions = 0
    /\ entry = "none"
    /\ scl_text = <<>>
    /\ callers = <<>>
    /\ sessions = <<>>
    /\ lock = 0
    /\ tasks = <<>>
    /\ now = 0
    /\ created = 0

\* ConversionHandlers.create_structured_text_xml(code_lines)
HandlerCreateStructuredText(lines) ==
    /\ pc \in {"idle", "extracted"}
    /\ generations < MaxGenerations
    /\ \E r \in {create_structured_text_xml(lines, reset_uid_counter(UidStart))} :
          /\ structured_text' = r.xml
          /\ uid_counter' = r.counter
    /\ code_lines' = lines
    /\ extracted' = <<>>
    /\ generations' = generations + 1
    /\ pc' = "generated"
    /\ UNCHANGED <<line, tokens, source, json_data, xml_doc, result, conversions, entry,
                   scl_text, callers, sessions, lock, tasks, now, created>>

\* The generation step of json_to_xml, on a generator of its own: the shared
\* generator's counter is not touched.
JsonToXmlGenerate(lines) ==
    /\ pc \in {"idle", "extracted"}
    /\ generations < MaxGenerations
    /\ structured_text' = JsonToXmlStructuredText(Chars("FB"), lines)[1]
    /\ code_lines' = lines
    /\ extracted' = <<>>
    /\ generations' = generations + 1
    /\ pc' = "generated"
    /\ UNCHANGED <<line, tokens, uid_counter, source, json_data, xml_doc, result,
                   conversions, entry, scl_text, callers, sessions, lock, tasks, now,
                   created>>

\* The NetworkSource element of the block templates around a StructuredText.
NetworkSourceOf(st) == Elem("NetworkSource", "", NoAttrs, <<st>>, <<>>)

\* The generated element read back and handed to extract_code_from_network_source.
ExtractGenerated ==
    /\ pc = "generated"
    /\ extracted' = extract_code_from_network_source(NetworkSourceOf(XmlParse(structured_text)))
    /\ pc' = "extracted"
    /\ UNCHANGED <<line, tokens, code_lines, uid_counter, structured_text, generations,
                   source, json_data, xml_doc, result, conversions, entry, scl_text,
                   callers, sessions, lock, tasks, now, created>>

(***************************************************************************)
(* Concurrent calls of ConversionHandlers.create_structured_text_xml: the   *)
(* handlers hold one TIAXMLGenerator and take no lock, so the steps of two  *)
(* callers on uid_counter interleave.  A caller records the UIds it is      *)
(* handed, in the order it asks for them, which is the order in which they  *)
(* are written into its document.                                           *)
(***************************************************************************)

IdleCaller == [pc |-> "idle", code_lines |-> <<>>, uid |-> 0, loaded |-> 0, uids |-> <<>>]

SharedInit ==
    /\ line = <<>>
    /\ tokens = <<>>
    /\ pc = "idle"
    /\ code_lines = <<>>
    /\ uid_counter = InitialUid
    /\ structured_text = NoElem
    /\ extracted = <<>>
    /\ generations = 0
    /\ source = NoDoc
    /\ json_data = NoDoc
    /\ xml_doc = NoElem
    /\ result = "none"
    /\ conversions = 0
    /\ entry = "none"
    /\ scl_text = <<>>
    /\ callers = [c \in Callers |-> IdleCaller]
    /\ sessions = <<>>
    /\ lock = 0
    /\ tasks = <<>>
    /\ now = 0
    /\ created = 0

\* The number of UIds create_structured_text_xml asks for on a code body.
UIdsNeeded(lines) == create_structured_text_xml(lines, UidStart).counter - UidStart

CallerUnchanged ==
    UNCHANGED <<line, tokens, code_lines, structured_text, extracted, generations,
                source, json_data, xml_doc, result, conversions, entry, scl_text, pc,
                sessions, lock, tasks, now, created>>

\* A caller enters ConversionHandlers.create_structured_text_xml(lines).
CallerEnters(c, lines) ==
    /\ callers[c].pc = "idle"
    /\ callers' = [callers EXCEPT ![c] = [IdleCaller EXCEPT !.pc = "reset",
                                                             !.code_lines = lines]]
    /\ UNCHANGED uid_counter
    /\ CallerUnchanged

\* self.tia_xml_generator.reset_uid_counter(21)
CallerResets(c) ==
    /\ callers[c].pc = "reset"
    /\ uid_counter' = reset_uid_counter(UidStart)
    /\ callers' = [callers EXCEPT ![c].pc = "generate"]
    /\ CallerUnchanged

\* get_next_uid: uid = str(self.uid_counter)
CallerReadsUid(c) ==
    /\ callers[c].pc = "generate"
    /\ Len(callers[c].uids) < UIdsNeeded(callers[c].code_lines)
    /\ callers' = [callers EXCEPT ![c].uid = uid_counter, ![c].pc = "increment"]
    /\ UNCHANGED uid_counter
    /\ CallerUnchanged

\* get_next_uid: self.uid_counter += 1, the read of the attribute.
CallerLoadsCounter(c) ==
    /\ callers[c].pc = "increment"
    /\ callers' = [callers EXCEPT ![c].loaded = uid_counter, ![c].pc = "store"]
    /\ UNCHANGED uid_counter
    /\ CallerUnchanged

\* get_next_uid: self.uid_counter += 1, the store of the sum; return uid.
CallerStoresCounter(c) ==
    /\ callers[c].pc = "store"
    /\ uid_counter' = callers[c].loaded + 1
    /\ callers' = [callers EXCEPT ![c].uids = Append(@, callers[c].uid),
                                  ![c].uid = 0, ![c].loaded = 0,
                                  ![c].pc = "generate"]
    /\ CallerUnchanged

\* create_structured_text_xml returns its document to the caller.
CallerReturns(c) ==
    /\ callers[c].pc = "generate"
    /\ Len(callers[c].uids) = UIdsNeeded(callers[c].code_lines)
    /\ callers' = [callers EXCEPT ![c].pc = "done"]
    /\ UNCHANGED uid_counter
    /\ CallerUnchanged

SharedNext ==
    \/ \E c \in Callers, lines \in ConcurrentBodies : CallerEnters(c, lines)
    \/ \E c \in Callers : CallerResets(c)
    \/ \E c \in Callers : CallerReadsUid(c)
    \/ \E c \in Callers : CallerLoadsCounter(c)
    \/ \E c \in Callers : CallerStoresCounter(c)
    \/ \E c \in Callers : CallerReturns(c)

GenNext ==
    \/ \E lines \in CodeBodies : HandlerCreateStructuredText(lines)
    \/ \E lines \in CodeBodies : JsonToXmlGenerate(lines)
    \/ ExtractGenerated

SpecGen == GenInit /\ [][GenNext]_vars

SpecShared == SharedInit /\ [][SharedNext]_vars

(***************************************************************************)
(* session_manager.py: SessionManager.  Coroutines run on one event loop:   *)
(* a task runs until it awaits something that suspends it (the lock held    *)
(* by a task, the client's disconnect, a sleep), so each action below is    *)
(* the code between two suspension points.  asyncio.Lock is not reentrant:  *)
(* acquire suspends the task whenever the lock is held, also by itself.     *)
(***************************************************************************)

\* SessionManager(timeout_seconds, max_sessions): small values of the
\* constructor's parameters.
timeout_seconds == 1
max_sessions == 2

\* Most session ids handed out, and the latest time.
MaxCreated == 3
MaxTime == 2

\* The tasks calling the manager, and the task running _cleanup_loop.
Clients == {1, 2}
CleanupTask == Cardinality(Clients) + 1
Tasks == Clients \cup {CleanupTask}

SessionIds == 1..MaxCreated

IdleTask == [pc |-> "idle", session_id |-> 0, expired_sessions |-> <<>>,
             cleanup_for |-> "none", close_for |-> "none", outcome |-> "none"]

SessionInit ==
    /\ line = <<>>
    /\ tokens = <<>>
    /\ pc = "idle"
    /\ code_lines = <<>>
    /\ uid_counter = InitialUid
    /\ structured_text = NoElem
    /\ extracted = <<>>
    /\ generations = 0
    /\ source = NoDoc
    /\ json_data = NoDoc
    /\ xml_doc = NoElem
    /\ result = "none"
    /\ conversions = 0
    /\ entry = "none"
    /\ scl_text = <<>>
    /\ callers = <<>>
    /\ sessions = <<>>
    /\ lock = 0
    /\ tasks = [t \in Tasks |-> IdleTask]
    /\ now = 0
    /\ created = 0

ManagerUnchanged ==
    UNCHANGED <<line, tokens, code_lines, uid_counter, structured_text, extracted,
                generations, source, json_data, xml_doc, result, conversions, entry,
                scl_text, callers, pc>>

\* TIASession.is_expired
is_expired(last_activity) == now - last_activity > timeout_seconds

\* The keys of self.sessions in a set, in insertion order (ids ascend).
RECURSIVE Ascending(_)
Ascending(ids) ==
    IF ids = {} THEN <<>>
    ELSE LET least == CHOOSE i \in ids : \A j \in ids : i <= j
         IN <<least>> \o Ascending(ids \ {least})

\* _cleanup_expired_sessions, lines 223-227: the ids of the expired sessions.
ExpiredSessions == Ascending({ id \in DOMAIN sessions : is_expired(sessions[id]) })

\* len(self.sessions) >= self.max_sessions
LimitReached == Cardinality(DOMAIN sessions) >= max_sessions

\* The calls of create_session in progress.
Creating == { t \in Tasks : tasks[t].pc \in {"create_lock", "create_limit", "cleanup",
                                             "close_lock", "close_lookup",
                                             "close_disconnect", "create_recheck"}
                             /\ (tasks[t].pc \in {"create_lock", "create_limit",
                                                  "create_recheck"}
                                 \/ tasks[t].cleanup_for = "create") }

\* A client calls create_session: it reaches async with self._lock.
CallCreateSession(t) ==
    /\ t \in Clients
    /\ tasks[t].pc = "idle"
    /\ created + Cardinality(Creating) < MaxCreated
    /\ tasks' = [tasks EXCEPT ![t] = [IdleTask EXCEPT !.pc = "create_lock"]]
    /\ UNCHANGED <<sessions, lock, now, created>>
    /\ ManagerUnchanged

\* A client calls close_session(session_id): it reaches async with self._lock.
CallCloseSession(t, session_id) ==
    /\ t \in Clients
    /\ tasks[t].pc = "idle"
    /\ tasks' = [tasks EXCEPT ![t] = [IdleTask EXCEPT !.pc = "close_lock",
                                                       !.session_id = session_id,
                                                       !.close_for = "client"]]
    /\ UNCHANGED <<sessions, lock, now, created>>
    /\ ManagerUnchanged

\* get_session(session_id): an unknown id returns None, an expired session is
\* closed through close_session, any other has its last_activity updated.
GetSession(t, session_id) ==
    /\ t \in Clients
    /\ tasks[t].pc = "idle"
    /\ IF session_id \notin DOMAIN sessions
       THEN /\ tasks' = [tasks EXCEPT ![t] = [IdleTask EXCEPT !.outcome = "None"]]
            /\ UNCHANGED sessions
       ELSE IF is_expired(sessions[session_id])
       THEN /\ tasks' = [tasks EXCEPT ![t] = [IdleTask EXCEPT !.pc = "close_lock",
                                                              !.session_id = session_id,
                                                              !.close_for = "get_session"]]
            /\ UNCHANGED sessions
       ELSE /\ tasks' = [tasks EXCEPT ![t] = [IdleTask EXCEPT !.outcome = "session"]]
            /\ sessions' = [sessions EXCEPT ![session_id] = now]
    /\ UNCHANGED <<lock, now, created>>
    /\ ManagerUnchanged

\* async with self._lock: the lock is free and the waiting task takes it.
AcquireLock(t) ==
    /\ tasks[t].pc \in {"create_lock", "close_lock"}
    /\ lock = 0
    /\ lock' = t
    /\ tasks' = [tasks EXCEPT ![t].pc = IF tasks[t].pc = "create_lock"
                                        THEN "create_limit" ELSE "close_lookup"]
    /\ UNCHANGED <<sessions, now, created>>
    /\ ManagerUnchanged

\* The new session is registered and returned; the lock is released.
Registered(t) ==
    /\ sessions' = [id \in DOMAIN sessions \cup {created + 1} |->
                      IF id = created + 1 THEN now ELSE sessions[id]]
    /\ created' = created + 1
    /\ lock' = 0
    /\ tasks' = [tasks EXCEPT ![t] = [IdleTask EXCEPT !.outcome = "created",
                                                       !.session_id = created + 1]]

\* create_session under the lock, lines 120-152: below the limit the session
\* is created; at the limit _cleanup_expired_sessions is entered first.
CreateChecksLimit(t) ==
    /\ tasks[t].pc = "create_limit"
    /\ IF LimitReached
       THEN /\ tasks' = [tasks EXCEPT ![t].pc = "cleanup",
                                      ![t].cleanup_for = "create",
                                      ![t].expired_sessions = ExpiredSessions]
            /\ UNCHANGED <<sessions, lock, created>>
       ELSE Registered(t)
    /\ UNCHANGED now
    /\ ManagerUnchanged

\* The loop of _cleanup_expired_sessions, lines 229-231: the next expired
\* session is handed to close_session; after the last one the call returns.
CleanupNext(t) ==
    /\ tasks[t].pc = "cleanup"
    /\ IF tasks[t].expired_sessions # <<>>
       THEN tasks' = [tasks EXCEPT ![t].pc = "close_lock",
                                   ![t].session_id = Head(tasks[t].expired_sessions),
                                   ![t].expired_sessions = Tail(tasks[t].expired_sessions),
                                   ![t].close_for = "cleanup"]
       ELSE IF tasks[t].cleanup_for = "create"
       THEN tasks' = [tasks EXCEPT ![t].pc = "create_recheck"]
       ELSE tasks' = [tasks EXCEPT ![t] = IdleTask]
    /\ UNCHANGED <<sessions, lock, now, created>>
    /\ ManagerUnchanged

\* The task after close_session returned outcome.
AfterClose(t, outcome) ==
    IF tasks[t].close_for = "cleanup"
    THEN [tasks EXCEPT ![t].pc = "cleanup", ![t].session_id = 0, ![t].close_for = "none"]
    ELSE [tasks EXCEPT ![t] = [IdleTask EXCEPT !.outcome =
                                 IF tasks[t].close_for = "get_session" THEN "None"
                                 ELSE outcome]]

\* close_session under the lock, lines 186-193: an unknown id returns False
\* and releases the lock; otherwise the task awaits the client's disconnect.
CloseLooksUp(t) ==
    /\ tasks[t].pc = "close_lookup"
    /\ IF tasks[t].session_id \notin DOMAIN sessions
       THEN /\ tasks' = AfterClose(t, "False")
            /\ lock' = 0
       ELSE /\ tasks' = [tasks EXCEPT ![t].pc = "close_disconnect"]
            /\ UNCHANGED lock
    /\ UNCHANGED <<sessions, now, created>>
    /\ ManagerUnchanged

\* close_session, lines 198-208: the session is removed, the lock released.
CloseRemoves(t) ==
    /\ tasks[t].pc = "close_disconnect"
    /\ sessions' = [id \in DOMAIN sessions \ {tasks[t].session_id} |-> sessions[id]]
    /\ lock' = 0
    /\ tasks' = AfterClose(t, "True")
    /\ UNCHANGED <<now, created>>
    /\ ManagerUnchanged

\* create_session after the cleanup, lines 124-152: RuntimeError at the limit
\* (leaving async with releases the lock), else the session is created.
CreateRechecks(t) ==
    /\ tasks[t].pc = "create_recheck"
    /\ IF LimitReached
       THEN /\ tasks' = [tasks EXCEPT ![t] = [IdleTask EXCEPT !.outcome = "RuntimeError"]]
            /\ lock' = 0
            /\ UNCHANGED <<sessions, created>>
       ELSE Registered(t)
    /\ UNCHANGED now
    /\ ManagerUnchanged

\* _cleanup_loop wakes from its sleep and enters _cleanup_expired_sessions.
CleanupLoopWakes ==
    /\ tasks[CleanupTask].pc = "idle"
    /\ tasks' = [tasks EXCEPT ![CleanupTask].pc = "cleanup",
                              ![CleanupTask].cleanup_for = "loop",
                              ![CleanupTask].expired_sessions = ExpiredSessions]
    /\ UNCHANGED <<sessions, lock, now, created>>
    /\ ManagerUnchanged

\* Time passes.
TimePasses ==
    /\ now < MaxTime
    /\ now' = now + 1
    /\ UNCHANGED <<sessions, lock, tasks, created>>
    /\ ManagerUnchanged

\* The steps a task takes once it is inside a call.
Continues(t) ==
    \/ CreateChecksLimit(t)
    \/ CleanupNext(t)
    \/ CloseLooksUp(t)
    \/ CloseRemoves(t)
    \/ CreateRechecks(t)

SessionNext ==
    \/ \E t \in Clients : CallCreateSession(t)
    \/ \E t \in Clients, session_id \in SessionIds : CallCloseSession(t, session_id)
    \/ \E t \in Clients, session_id \in SessionIds : GetSession(t, session_id)
    \/ \E t \in Tasks : AcquireLock(t)
    \/ \E t \in Tasks : Continues(t)
    \/ CleanupLoopWakes
    \/ TimePasses

\* The event loop runs every task that is ready, and the lock wakes its
\* waiters in turn when it is released.
SessionFairness ==
    \A t \in Tasks : WF_vars(Continues(t)) /\ SF_vars(AcquireLock(t))

SpecSession == SessionInit /\ [][SessionNext]_vars /\ SessionFairness

(***************************************************************************)
(* The reflow of long calls on its own: format_long_function_call applied  *)
(* to a line, and the post-processing loop of                              *)
(* extract_code_from_network_source applied to a line.                     *)
(***************************************************************************)

\* Longest line handed to format_long_function_call directly.
MaxCallLen == 7

CallAlphabet == {"(", ")", ",", "a", " "}

\* Calls longer than LongCallLength, with and without a blank last parameter,
\* and a long line that is no call.
LongCalls ==
    { Chars("  \"Block\"(#a := 1,") \o Spaces(LongCallLength - 30) \o Chars("#b := 2, #c := #d")
        \o closing :
        closing \in {Chars(");"), Chars(")"), Chars(", );"), <<>>} }
    \cup { Chars("#a := 1;") \o Spaces(LongCallLength) \o Chars("// (b, c)") }

ReflowLines == BoundedSeq(CallAlphabet, MaxCallLen) \cup LongCalls

ReflowInit ==
    /\ line \in ReflowLines
    /\ tokens = <<>>
    /\ pc = "reflow"
    /\ code_lines = <<>>
    /\ uid_counter = InitialUid
    /\ structured_text = NoElem
    /\ extracted = <<>>
    /\ generations = 0
    /\ source = NoDoc
    /\ json_data = NoDoc
    /\ xml_doc = NoElem
    /\ result = "none"
    /\ conversions = 0
    /\ entry = "none"
    /\ scl_text = <<>>
    /\ callers = <<>>
    /\ sessions = <<>>
    /\ lock = 0
    /\ tasks = <<>>
    /\ now = 0
    /\ created = 0

\* format_long_function_call(line)
FormatLongFunctionCall ==
    /\ pc = "reflow"
    /\ extracted' = format_long_function_call(line)
    /\ entry' = "format_long_function_call"
    /\ pc' = "reflowed"
    /\ UNCHANGED <<line, tokens, code_lines, uid_counter, structured_text, generations,
                   source, json_data, xml_doc, result, conversions, scl_text, callers,
                   sessions, lock, tasks, now, created>>

\* The post-processing loop of extract_code_from_network_source on one line.
PostProcessLine ==
    /\ pc = "reflow"
    /\ extracted' = FormatLines(<<line>>)
    /\ entry' = "extract_code_from_network_source"
    /\ pc' = "reflowed"
    /\ UNCHANGED <<line, tokens, code_lines, uid_counter, structured_text, generations,
                   source, json_data, xml_doc, result, conversions, scl_text, callers,
                   sessions, lock, tasks, now, created>>

ReflowNext ==
    \/ FormatLongFunctionCall
    \/ PostProcessLine

SpecReflow == ReflowInit /\ [][ReflowNext]_vars


(***************************************************************************)
(* The conversion pipeline: a document is read as SCL text, as a canonical *)
(* document or as block XML and carried through the conversion entry       *)
(* points.                                                                 *)
(***************************************************************************)

\* Conversions run on one document.
MaxConversions == 3

\* "\n".join(lines)
RECURSIVE JoinLines(_)
JoinLines(lines) ==
    IF lines = <<>> THEN <<>>
    ELSE IF Len(lines) = 1 THEN Head(lines)
    ELSE Head(lines) \o <<"\n">> \o JoinLines(Tail(lines))

\* Block headers of SCL texts with their end markers; the last two name no block.
TextHeaders ==
    { <<Chars("FUNCTION_BLOCK \"M\""), Chars("END_FUNCTION_BLOCK")>>,
      <<Chars("FUNCTION \"F\" : Int"), Chars("END_FUNCTION")>>,
      <<Chars("FUNCTION \"F\""), Chars("END_FUNCTION")>>,
      <<Chars("ORGANIZATION_BLOCK \"OB1\""), Chars("END_ORGANIZATION_BLOCK")>>,
      <<Chars("DATA_BLOCK \"D\""), Chars("END_DATA_BLOCK")>>,
      <<Chars("TYPE \"U\""), Chars("END_TYPE")>>,
      <<Chars("// notes"), Chars("// end")>> }

TextDeclarations ==
    { <<>>,
      <<Chars("VAR_INPUT"), Chars("  x : Int;"), Chars("END_VAR")>>,
      <<Chars("VAR"), Chars("  s : Struct"), Chars("    a : Int;"), Chars("    b : Bool;"),
        Chars("  END_STRUCT;"), Chars("END_VAR")>>,
      <<Chars("VAR_TEMP"), Chars("  t : Int := 5;"), Chars("END_VAR")>> }

TextBodies == { <<Chars("BEGIN"), Chars("  #x := 1;")>>, <<Chars("BEGIN")>> }

TextSources ==
    { [kind |-> "scl",
       text |-> JoinLines(<<h[1]>> \o d \o b \o <<h[2]>>)] :
        h \in TextHeaders, d \in TextDeclarations, b \in TextBodies }

\* Members of canonical documents.
MemberX == [name |-> Chars("x"), datatype |-> Chars("Int")]
MemberS ==
    [name |-> Chars("s"), datatype |-> Chars("Struct"), level |-> 0,
     members |-> << [name |-> Chars("a"), datatype |-> Chars("Int"), level |-> 1],
                    [name |-> Chars("b"), datatype |-> Chars("Bool"), level |-> 1] >>]

DocSections ==
    { EmptySections,
      [k \in {} |-> <<>>],
      Put(EmptySections, Chars("input_section"), <<MemberX>>),
      Put(EmptySections, Chars("static_section"), <<MemberS>>),
      [k \in DOMAIN EmptySections |-> <<MemberX>>] }

DocMetadata ==
    { [blockName |-> Chars("M")] }
    \cup { [blockName |-> Chars("M"), blockType |-> t] :
            t \in {Chars("FB"), Chars("OB"), Chars("GlobalDB"), Chars("InstanceDB")} }
    \cup { [blockName |-> Chars("M"), blockType |-> Chars("FC")] }
    \cup { [blockName |-> Chars("M"), blockType |-> t, returnType |-> r] :
            t \in {Chars("FB"), Chars("FC")}, r \in {None, Chars("Void"), Chars("Int")} }

DocCode == { <<>>, <<Chars("  #x := 1;")>> }

\* Code bodies with a block, an assignment without a value, a REGION without
\* a name and a REGION with one of the names format_code_lines looks for.
DocStatements ==
    { << Chars("IF #a THEN"), Chars("  #x := 1;"), Chars("END_IF;") >>,
      << Chars("#t := ;") >>,
      << Chars("REGION"), Chars("END_REGION") >>,
      << Chars("REGION Sensor declaration"), Chars("END_REGION") >> }

DocSources ==
    { [kind |-> "json", doc |-> [metadata |-> m, sections |-> sec, code |-> c]] :
        m \in DocMetadata, sec \in DocSections, c \in DocCode }
    \cup
    { [kind |-> "json",
       doc |-> [metadata |-> [blockName |-> Chars("M"), blockType |-> Chars("FB")],
                sections |-> EmptySections, code |-> c]] :
        c \in DocStatements }

\* Hand-written block XML: a Document around one element, and the parts
\* the documents below are put together from.
XmlDocument(element) ==
    Elem("Document", "", NoAttrs,
         << Elem("Engineering", "", [version |-> Chars("V17")], <<>>, <<>>), element >>,
         <<>>)

XmlMember(name, datatype, children) ==
    Elem("Member", InterfaceNamespace, [Name |-> Chars(name), Datatype |-> Chars(datatype)],
         children, <<>>)

XmlSection(name, members) ==
    Elem("Section", InterfaceNamespace, [Name |-> Chars(name)], members, <<>>)

XmlInterface(sections) ==
    Elem("Interface", "", NoAttrs,
         << Elem("Sections", InterfaceNamespace, NoAttrs, sections, <<>>) >>, <<>>)

StructSections ==
    << XmlSection("Input", <<XmlMember("x", "Int", <<>>)>>),
       XmlSection("Static",
                  << XmlMember("s", "Struct",
                               << XmlMember("a", "Int", <<>>),
                                  XmlMember("b", "Bool", <<>>) >>) >>) >>

\* A compile unit whose NetworkSource is a direct child (direct = TRUE) or
\* sits in the AttributeList, as the templates write it.
XmlCompileUnit(lines, direct) ==
    Bind(NetworkSourceOf(create_structured_text_xml(lines, UidStart).xml),
         LAMBDA network_source :
           Elem("SW.Blocks.CompileUnit", "", [ID |-> Chars("3")],
                IF direct THEN <<network_source>>
                ELSE << Elem("AttributeList", "", NoAttrs, <<network_source>>, <<>>) >>,
                <<>>))

\* A compile unit around a StructuredText element written by hand.
XmlCompileUnitOf(structured) ==
    Elem("SW.Blocks.CompileUnit", "", [ID |-> Chars("3")],
         <<NetworkSourceOf(structured)>>, <<>>)

\* The compile units of a block: none, one holding the code lines (its
\* NetworkSource a direct child or not), or one holding the nodes given.
XmlCompileUnits(code) ==
    IF code = <<>> THEN <<>>
    ELSE IF Len(code) = 2 THEN <<XmlCompileUnit(code[1], code[2])>>
    ELSE <<XmlCompileUnitOf(Elem("StructuredText", STNamespace, NoAttrs, code[2], <<>>))>>

\* Nodes of a StructuredText written by hand.
StNode(tag, attrs, children, text) == Elem(tag, STNamespace, attrs, children, text)

StToken(text) == StNode("Token", [Text |-> Chars(text)], <<>>, <<>>)

StNewLine == StNode("NewLine", NoAttrs, <<>>, <<>>)

StSymbol(name) ==
    StNode("Symbol", NoAttrs, <<StNode("Component", [Name |-> Chars(name)], <<>>, <<>>)>>,
           <<>>)

StConstant(value) ==
    StNode("Constant", NoAttrs, <<StNode("ConstantValue", NoAttrs, <<>>, Chars(value))>>,
           <<>>)

\* The statement "#x;".
StStatement ==
    << StNode("Access", [Scope |-> Chars("LocalVariable")], <<StSymbol("x")>>, <<>>),
       StToken(";") >>

\* A Blank whose Num is not a number.
StBlankNotANumber == StNode("Blank", [Num |-> Chars("x")], <<>>, <<>>)

\* Access nodes of an unexpected shape: no Scope, a Scope no branch knows, a
\* literal and a typed constant without ConstantValue.
StUnexpectedAccesses ==
    { StNode("Access", NoAttrs, <<StConstant("5")>>, <<>>),
      StNode("Access", NoAttrs, <<StSymbol("z")>>, <<>>),
      StNode("Access", [Scope |-> Chars("Address")], <<StConstant("5")>>, <<>>),
      StNode("Access", [Scope |-> Chars("LiteralConstant")],
             <<StNode("Constant", NoAttrs, <<>>, <<>>)>>, <<>>),
      StNode("Access", [Scope |-> Chars("TypedConstant")],
             <<StNode("Constant", NoAttrs, <<>>, <<>>)>>, <<>>) }

\* Two statements with one more node in the first line, in the second line,
\* or that node alone.
StBodies ==
    { StStatement \o <<StNewLine>> \o StStatement }
    \cup UNION { { <<Head(StStatement), n>> \o Tail(StStatement) \o <<StNewLine>>
                       \o StStatement,
                   StStatement \o <<StNewLine, Head(StStatement), n>> \o Tail(StStatement),
                   <<n>> } :
                 n \in StUnexpectedAccesses \cup {StBlankNotANumber} }

XmlBlock(tag, attribute_list, compile_units) ==
    Elem(tag, "", [ID |-> Chars("0")],
         attribute_list \o << Elem("ObjectList", "", NoAttrs, compile_units, <<>>) >>, <<>>)

XmlAttributeList(children) == << Elem("AttributeList", "", NoAttrs, children, <<>>) >>

XmlName == TextElem("Name", Chars("M"))

\* The blocks of the documents: the element name, the AttributeList and the
\* code of the compile unit.
XmlBlocks ==
    { \* no supported block element
      <<"SW.Types.PlcStruct",
        XmlAttributeList(<<XmlInterface(StructSections), XmlName>>), <<>> >>,
      <<"SW.Blocks.InstanceDB",
        XmlAttributeList(<<XmlInterface(StructSections), XmlName>>), <<>> >>,
      \* a block without AttributeList, without Interface, without Sections
      <<"SW.Blocks.FB", <<>>, << <<Chars("#x := 1;")>>, FALSE >> >>,
      <<"SW.Blocks.FB", XmlAttributeList(<<XmlName>>), << <<Chars("#x := 1;")>>, FALSE >> >>,
      <<"SW.Blocks.FC",
        XmlAttributeList(<<Elem("Interface", "", NoAttrs, <<>>, <<>>), XmlName>>),
        << <<Chars("#x := 1;")>>, TRUE >> >>,
      \* a block with SetENOAutomatically left empty
      <<"SW.Blocks.FB",
        XmlAttributeList(<<XmlInterface(StructSections), XmlName,
                           TextElem("SetENOAutomatically", <<>>)>>),
        <<>> >> }
    \cup
    { <<tag,
        XmlAttributeList(<<XmlInterface(StructSections), XmlName,
                           TextElem("Number", Chars("7")),
                           TextElem("SetENOAutomatically", Chars("TRUE"))>>),
        <<lines, direct>> >> :
        tag \in {"SW.Blocks.FB", "SW.Blocks.FC", "SW.Blocks.OB", "SW.Blocks.GlobalDB"},
        lines \in {<<Chars("#x := 1;")>>, <<Chars("\"gc_Max\"")>>},
        direct \in BOOLEAN }
    \cup
    { <<"SW.Blocks.FB", XmlAttributeList(<<XmlName>>), <<"nodes", nodes, TRUE>> >> :
        nodes \in StBodies }

XmlDocuments ==
    { XmlDocument(XmlBlock(b[1], b[2], XmlCompileUnits(b[3]))) : b \in XmlBlocks }

XmlSources == { [kind |-> "xml", xml |-> x] : x \in XmlDocuments }

Sources == TextSources \cup DocSources \cup XmlSources

(* The extraction of hand-written StructuredText nodes: calls with          *)
(* parameters, components with array indices, global symbols.               *)
(***************************************************************************)

\* Most parameters of a call.
MaxParams == 2

StAccess(scope, children) == StNode("Access", [Scope |-> Chars(scope)], children, <<>>)

\* A Component with the nodes of its array index, if any.
StComponent(name, index) ==
    StNode("Component", [Name |-> Chars(name)],
           IF index = <<>> THEN <<>> ELSE <<StToken("[")>> \o index \o <<StToken("]")>>,
           <<>>)

StSymbolOf(components) == StNode("Symbol", NoAttrs, components, <<>>)

StNamedConstant(name) == StNode("Constant", [Name |-> Chars(name)], <<>>, <<>>)

\* The accesses used as array indices: #i, "DB".i, "MAX", 1 and, one level
\* deeper, #b[...] around each of them and around #b[#c].
PlainIndices ==
    { StAccess("LocalVariable", <<StSymbolOf(<<StComponent("i", <<>>)>>)>>),
      StAccess("GlobalVariable",
               <<StSymbolOf(<<StComponent("DB", <<>>), StToken("."),
                              StComponent("i", <<>>)>>)>>),
      StAccess("GlobalConstant", <<StNamedConstant("MAX")>>),
      StAccess("LiteralConstant", <<StConstant("1")>>) }

NestedIndices ==
    { StAccess("LocalVariable", <<StSymbolOf(<<StComponent("b", <<inner>>)>>)>>) :
        inner \in PlainIndices }
    \cup { StAccess("LocalVariable",
                    <<StSymbolOf(<<StComponent("b",
                        <<StAccess("LocalVariable",
                                   <<StSymbolOf(<<StComponent("c", <<index>>)>>)>>)>>)>>)>>) :
             index \in { i \in PlainIndices : Attr(i, "Scope", <<>>) = Chars("LocalVariable") } }

\* #a[index].f and #a.f
StLocalAccesses ==
    { StAccess("LocalVariable",
               <<StSymbolOf(<<StComponent("a", index), StToken("."),
                              StComponent("f", <<>>)>>)>>) :
        index \in { <<i>> : i \in PlainIndices \cup NestedIndices } \cup { <<>> } }

\* "DB".v, "DB"[index].v with either global scope, and a named constant.
StGlobalAccesses ==
    { StAccess(scope,
               <<StSymbolOf(<<StComponent("DB", index), StToken("."),
                              StComponent("v", <<>>)>>)>>) :
        scope \in {"GlobalVariable", "GlobalConstant"},
        index \in { <<i>> : i \in { j \in PlainIndices :
                       Attr(j, "Scope", <<>>) \in {Chars("LocalVariable"),
                                                   Chars("LiteralConstant")} } }
                  \cup { <<>> } }
    \cup { StAccess(scope, <<StNamedConstant("gc_Max")>>) :
             scope \in {"GlobalVariable", "GlobalConstant"} }

\* A call of a callee with parameters p1..pn, each "pk := value".
StParameter(k, value) ==
    StNode("Parameter", [Name |-> <<"p">> \o IntToStr(k)],
           <<StToken(":="), value>>, <<>>)

RECURSIVE StParameters(_, _)
StParameters(values, k) ==
    IF k > Len(values) THEN <<>>
    ELSE (IF k > 1 THEN <<StToken(",")>> ELSE <<>>)
            \o <<StParameter(k, values[k])>> \o StParameters(values, k + 1)

StCall(instance, values) ==
    StAccess("Call",
             <<StNode("CallInfo", [BlockType |-> Chars("FC")],
                      <<instance, StToken("(")>> \o StParameters(values, 1)
                          \o <<StToken(")")>>,
                      <<>>)>>)

StInstances ==
    { StNode("Instance", [Scope |-> Chars("GlobalVariable")],
             <<StComponent("Fn", <<>>)>>, <<>>),
      StNode("Instance", [Scope |-> Chars("LocalVariable")],
             <<StSymbolOf(<<StComponent("inst", <<>>)>>)>>, <<>>) }

\* The parameter values: #x, "gc_Max", 5, a typed constant, and a call.
StValues ==
    { StAccess("LocalVariable", <<StSymbolOf(<<StComponent("x", <<>>)>>)>>),
      StAccess("GlobalConstant", <<StNamedConstant("gc_Max")>>),
      StAccess("LiteralConstant", <<StConstant("5")>>),
      StAccess("TypedConstant", <<StConstant("T#8s")>>) }
    \cup { StCall(instance, <<StAccess("LiteralConstant", <<StConstant("5")>>)>>) :
             instance \in StInstances }

StCalls ==
    { StCall(instance, values) :
        instance \in StInstances, values \in BoundedSeq(StValues, MaxParams) }

\* The StructuredText elements handed to the extractor: one statement each.
ExtractInputs ==
    { StNode("StructuredText", NoAttrs, <<access, StToken(";")>>, <<>>) :
        access \in StLocalAccesses \cup StGlobalAccesses \cup StCalls }

ExtractInit ==
    /\ line = <<>>
    /\ tokens = <<>>
    /\ pc = "nodes"
    /\ code_lines = <<>>
    /\ uid_counter = InitialUid
    /\ structured_text \in ExtractInputs
    /\ extracted = <<>>
    /\ generations = 0
    /\ source = NoDoc
    /\ json_data = NoDoc
    /\ xml_doc = NoElem
    /\ result = "none"
    /\ conversions = 0
    /\ entry = "none"
    /\ scl_text = <<>>
    /\ callers = <<>>
    /\ sessions = <<>>
    /\ lock = 0
    /\ tasks = <<>>
    /\ now = 0
    /\ created = 0

\* extract_code_from_network_source on the NetworkSource around the element.
ExtractNodes ==
    /\ pc = "nodes"
    /\ extracted' = extract_code_from_network_source(NetworkSourceOf(XmlParse(structured_text)))
    /\ pc' = "extracted"
    /\ UNCHANGED <<line, tokens, code_lines, uid_counter, structured_text, generations,
                   source, json_data, xml_doc, result, conversions, entry, scl_text,
                   callers, sessions, lock, tasks, now, created>>

ExtractNext == ExtractNodes

SpecExtract == ExtractInit /\ [][ExtractNext]_vars

(***************************************************************************)
(* The conversion of a .udt text to XML and back.  scl_text holds the text  *)
(* of the .udt file, xml_doc the document written from it.                  *)
(***************************************************************************)

\* Most members declared in the STRUCT of a type.
MaxUdtMembers == 2

\* An array declared as name : Array[lo..hi] of base.
ArrayOf(name, lo, hi, base) ==
    [name |-> Chars(name), lower |-> Chars(lo), upper |-> Chars(hi),
     base |-> Chars(base)]

\* The declarations a type is put together from: their lines and the arrays
\* they declare.
UdtDeclarations ==
    { [lines |-> << Chars("b : Bool;") >>, arrays |-> {}],
      [lines |-> << Chars("n : Int := 5;") >>, arrays |-> {}],
      [lines |-> << Chars("c : Int;   // count") >>, arrays |-> {}],
      [lines |-> << Chars("a : Array[0..9] of Int;") >>,
       arrays |-> {ArrayOf("a", "0", "9", "Int")}],
      [lines |-> << Chars("m : Array[1..3] of Bool;   // flags") >>,
       arrays |-> {ArrayOf("m", "1", "3", "Bool")}],
      [lines |-> << Chars("s : STRUCT"), Chars("   x : Int;"), Chars("   y : Bool;"),
                    Chars("END_STRUCT;") >>,
       arrays |-> {}],
      [lines |-> << Chars("t : STRUCT"), Chars("   u : STRUCT"),
                    Chars("      v : Array[0..1] of Int;"), Chars("   END_STRUCT;"),
                    Chars("   w : Int;"), Chars("END_STRUCT;") >>,
       arrays |-> {ArrayOf("v", "0", "1", "Int")}] }

UdtHeaders ==
    { << Chars("TYPE \"T\""), Chars("VERSION : 0.1") >>,
      << Chars("TYPE \"T\""), Chars("VERSION : 1.2"), Chars("   // Author: me"),
         Chars("   // demo") >> }

\* The text of a type with a header and declarations, laid out as
\* _generate_udt_content lays a type out.
UdtText(header, declarations) ==
    JoinWith(<<"\n">>,
        header \o << Chars("   STRUCT") >>
        \o join([k \in DOMAIN declarations |->
                   [j \in DOMAIN declarations[k].lines |->
                      Spaces(6) \o declarations[k].lines[j]]])
        \o << Chars("   END_STRUCT;"), <<>>, Chars("END_TYPE"), <<>>, <<>> >>)

\* Types of up to MaxUdtMembers declarations, no declaration twice.
UdtSources ==
    { [kind |-> "udt", text |-> UdtText(header, declarations),
       arrays |-> UNION { declarations[k].arrays : k \in DOMAIN declarations }] :
        header \in UdtHeaders,
        declarations \in { d \in BoundedSeq(UdtDeclarations, MaxUdtMembers) :
                             \A i, j \in DOMAIN d : i # j => d[i] # d[j] } }

UdtInit ==
    /\ line = <<>>
    /\ tokens = <<>>
    /\ pc = "udt"
    /\ code_lines = <<>>
    /\ uid_counter = InitialUid
    /\ structured_text = NoElem
    /\ extracted = <<>>
    /\ generations = 0
    /\ source \in UdtSources
    /\ json_data = NoDoc
    /\ xml_doc = NoElem
    /\ result = "none"
    /\ conversions = 0
    /\ entry = "none"
    /\ scl_text = source.text
    /\ callers = <<>>
    /\ sessions = <<>>
    /\ lock = 0
    /\ tasks = <<>>
    /\ now = 0
    /\ created = 0

\* UDTConverter.udt_to_xml
UdtToXml ==
    /\ pc = "udt"
    /\ xml_doc' = udt_to_xml(scl_text)
    /\ result' = "success"
    /\ entry' = "udt_to_xml"
    /\ pc' = "udt_xml"
    /\ UNCHANGED <<line, tokens, code_lines, uid_counter, structured_text, extracted,
                   generations, source, json_data, conversions, scl_text, callers,
                   sessions, lock, tasks, now, created>>

\* UDTConverter.xml_to_udt
XmlToUdt ==
    /\ pc = "udt_xml"
    /\ \E r \in {xml_to_udt(XmlParse(xml_doc))} :
          /\ scl_text' = IF r.returned THEN r.text ELSE scl_text
          /\ result' = IF r.returned THEN "success" ELSE "failure"
          /\ pc' = IF r.returned THEN "udt_text" ELSE "failed"
    /\ entry' = "xml_to_udt"
    /\ UNCHANGED <<line, tokens, code_lines, uid_counter, structured_text, extracted,
                   generations, source, json_data, xml_doc, conversions, callers,
                   sessions, lock, tasks, now, created>>

UdtNext == UdtToXml \/ XmlToUdt

SpecUdt == UdtInit /\ [][UdtNext]_vars

Init ==
    /\ source \in Sources
    /\ pc = source.kind
    /\ json_data = IF source.kind = "json" THEN source.doc ELSE NoDoc
    /\ xml_doc = IF source.kind = "xml" THEN source.xml ELSE NoElem
    /\ result = "none"
    /\ conversions = 0
    /\ entry = "none"
    /\ line = <<>>
    /\ tokens = <<>>
    /\ code_lines = <<>>
    /\ uid_counter = InitialUid
    /\ structured_text = NoElem
    /\ extracted = <<>>
    /\ generations = 0
    /\ scl_text = IF source.kind = "scl" THEN source.text ELSE <<>>
    /\ callers = <<>>
    /\ sessions = <<>>
    /\ lock = 0
    /\ tasks = <<>>
    /\ now = 0
    /\ created = 0

\* ConversionHandlers.convert_scl_to_json -> SCLToJSONConverter.scl_to_json
ConvertSclToJson ==
    /\ pc = "scl"
    /\ conversions < MaxConversions
    /\ json_data' = scl_to_json(scl_text)
    /\ result' = "success"
    /\ entry' = "convert_scl_to_json"
    /\ conversions' = conversions + 1
    /\ pc' = "json"
    /\ UNCHANGED <<line, tokens, code_lines, uid_counter, structured_text, extracted,
                   generations, source, xml_doc, scl_text, callers, sessions, lock,
                   tasks, now, created>>

\* ConversionHandlers.convert_json_to_xml -> json_to_xml (a generator of its own)
ConvertJsonToXml ==
    /\ pc = "json"
    /\ conversions < MaxConversions
    /\ xml_doc' = json_to_xml(json_data)
    /\ result' = "success"
    /\ entry' = "convert_json_to_xml"
    /\ conversions' = conversions + 1
    /\ pc' = "xml"
    /\ UNCHANGED <<line, tokens, code_lines, uid_counter, structured_text, extracted,
                   generations, source, json_data, scl_text, callers, sessions, lock,
                   tasks, now, created>>

\* ConversionHandlers.convert_json_to_scl -> JSONToSCLConverter.json_to_scl
ConvertJsonToScl ==
    /\ pc = "json"
    /\ conversions < MaxConversions
    /\ scl_text' = json_to_scl(json_data)
    /\ result' = "success"
    /\ entry' = "convert_json_to_scl"
    /\ conversions' = conversions + 1
    /\ pc' = "scl"
    /\ UNCHANGED <<line, tokens, code_lines, uid_counter, structured_text, extracted,
                   generations, source, json_data, xml_doc, callers, sessions, lock,
                   tasks, now, created>>

\* What an extractor leaves: the document written and success, or no document.
Extracted(r) ==
    /\ json_data' = IF r.returned THEN r.doc ELSE NoDoc
    /\ result' = IF r.returned THEN "success" ELSE "failure"
    /\ pc' = IF r.returned THEN "json" ELSE "failed"
    /\ conversions' = conversions + 1
    /\ UNCHANGED <<line, tokens, code_lines, uid_counter, structured_text, extracted,
                   generations, source, xml_doc, scl_text, callers, sessions, lock,
                   tasks, now, created>>

\* ConversionHandlers.convert_xml_to_json with use_patched_xml_to_json set
ConvertXmlToJson ==
    /\ pc = "xml"
    /\ conversions < MaxConversions
    /\ entry' = "convert_xml_to_json"
    /\ Extracted(patched_xml_to_json(XmlParse(xml_doc)))

\* xml_to_json called on the document
XmlToJson ==
    /\ pc = "xml"
    /\ conversions < MaxConversions
    /\ entry' = "xml_to_json"
    /\ Extracted(xml_to_json(XmlParse(xml_doc)))

Next ==
    \/ ConvertSclToJson
    \/ ConvertJsonToXml
    \/ ConvertJsonToScl
    \/ ConvertXmlToJson
    \/ XmlToJson

Spec == Init /\ [][Next]_vars

(***************************************************************************)
(* Properties of the conversion pipeline                                   *)
(***************************************************************************)

\* The document written by canonical->xml from json_data.
JsonToXmlRan == pc = "xml" /\ entry = "convert_json_to_xml"

\* The Section elements of the interface of the generated document.
GeneratedSections == FirstTagged(Descendants(xml_doc), {"Sections"}).children

SectionNames ==
    Bind(GeneratedSections,
         LAMBDA section_elements :
           [k \in DOMAIN section_elements |-> Attr(section_elements[k], "Name", <<>>)])

SixSections ==
    << Chars("Input"), Chars("Output"), Chars("InOut"),
       Chars("Static"), Chars("Temp"), Chars("Constant") >>

\* C4: a Function-Block document is always written with exactly the six
\* sections Input, Output, InOut, Static, Temp, Constant, empty or not, and with
\* no Return section; a Function document whose return type is absent, null
\* or Void is written with a Return section that has no member.
C4_SectionCompleteness ==
    JsonToXmlRan =>
        LET block_type == Get(json_data.metadata, "blockType", Chars("FB"))
            return_type == Get(json_data.metadata, "returnType", None)
        IN /\ block_type = Chars("FB") => SectionNames = SixSections
           /\ (block_type = Chars("FC") /\ return_type \in {None, Chars("Void")}) =>
                Bind(GeneratedSections,
                     LAMBDA section_elements :
                       \E k \in DOMAIN section_elements :
                           /\ Attr(section_elements[k], "Name", <<>>) = Chars("Return")
                           /\ section_elements[k].children = <<>>)

\* A Function-Block document that names a return type and has no sections
\* has been written with its six empty sections.
C4_Witness ==
    /\ JsonToXmlRan
    /\ Get(json_data.metadata, "blockType", <<>>) = Chars("FB")
    /\ Get(json_data.metadata, "returnType", None) = Chars("Int")
    /\ DOMAIN json_data.sections = {}
    /\ Len(GeneratedSections) = 6
    /\ \A k \in DOMAIN GeneratedSections : GeneratedSections[k].children = <<>>

\* A canonical source document read back after canonical->xml, xml->canonical.
RoundTripped == source.kind = "json" /\ pc = "json" /\ conversions = 2

\* The name and datatype of each member of a list.
Signature(members) ==
    [k \in DOMAIN members |-> <<members[k].name, members[k].datatype>>]

\* C5: a Struct member with nested members, written by canonical->xml and
\* read back by xml->canonical, is a Struct member that owns the same children
\* (names and datatypes), one level below it.
C5_StructNesting ==
    RoundTripped =>
        \A key \in DOMAIN source.doc.sections :
            \A k \in DOMAIN source.doc.sections[key] :
                LET m == source.doc.sections[key][k]
                IN "members" \in DOMAIN m =>
                     \E j \in DOMAIN Get(json_data.sections, key, <<>>) :
                        LET r == json_data.sections[key][j]
                        IN /\ r.name = m.name
                           /\ r.datatype = Chars("Struct")
                           /\ "members" \in DOMAIN r
                           /\ Signature(r.members) = Signature(m.members)
                           /\ \A c \in DOMAIN r.members : r.members[c].level = r.level + 1

\* The function-block text of C6.
FunctionBlockText ==
    JoinLines(<< Chars("FUNCTION_BLOCK \"M\""), Chars("VAR_INPUT"), Chars("  x : Int;"),
                 Chars("END_VAR"), Chars("BEGIN"), Chars("  #x := 1;"),
                 Chars("END_FUNCTION_BLOCK") >>)

BlockKeywords ==
    { Chars("FUNCTION_BLOCK"), Chars("FUNCTION"), Chars("ORGANIZATION_BLOCK"),
      Chars("DATA_BLOCK") }

SupportedBlocks == {"SW.Blocks.FB", "SW.Blocks.OB", "SW.Blocks.FC", "SW.Blocks.GlobalDB"}

NoRecognizableBlock ==
    \/ source.kind = "scl" /\ \A kw \in BlockKeywords : ~Contains(source.text, kw)
    \/ source.kind = "xml" /\ FirstTagged(Descendants(source.xml), SupportedBlocks) = NoElem
    \/ source.kind = "xml" /\ FirstTagged(Descendants(source.xml), {"Sections"}) = NoElem

\* C10: the conversion of a source with no recognizable block, by
\* text->canonical or by either extractor, ends in a failure result and leaves
\* no canonical document.
C10_NoBlockFails ==
    (NoRecognizableBlock /\ conversions = 1) =>
        result = "failure" /\ json_data = NoDoc

\* The state after xml->canonical by either extractor: xml_doc is the document
\* it read.
XmlEntries == {"convert_xml_to_json", "xml_to_json"}

AfterXmlToCanonical == entry \in XmlEntries /\ pc \in {"json", "failed"}

\* The children of the StructuredText element an extractor walks in a parsed
\* document, none if it finds no such element.
WalkedNodes(by, root) ==
    LET network_source ==
            IF by = "xml_to_json"
            THEN InlineNetworkSource(FindDeep(FoundBlock(root).block,
                                              "SW.Blocks.CompileUnit"))
            ELSE find_network_source(FindDeep(PatchedBlock(root), "SW.Blocks.CompileUnit"))
        structured ==
            IF network_source = NoElem THEN NoElem
            ELSE IF by = "xml_to_json" THEN InlineStructuredText(network_source)
            ELSE FirstTagged(network_source.children, {"StructuredText"})
    IN IF structured = NoElem THEN <<>> ELSE structured.children

\* Whether an error is raised while the extractor walks the nodes.
WalkRaises(by, root) ==
    IF by = "xml_to_json" THEN ~InlineLoop(WalkedNodes(by, root), 1, <<>>, <<>>).ok
    ELSE ~ExtractLoop(WalkedNodes(by, root), 1, <<>>, <<>>).ok

\* C11: a conversion ends in success with a document or in failure with none,
\* and xml->canonical does not report success when an error was raised while
\* the structured-code nodes were walked.
C11_CompleteOrNothing ==
    /\ result = "failure" => json_data = NoDoc
    /\ (result = "success" /\ pc = "json") => json_data # NoDoc
    /\ (AfterXmlToCanonical /\ WalkRaises(entry, XmlParse(xml_doc))) =>
          result = "failure" /\ json_data = NoDoc

\* The Access nodes of an unexpected shape: the Scope missing or not one the
\* extractors know, or a literal or typed constant with no ConstantValue.
KnownScopes ==
    { Chars("LocalVariable"), Chars("GlobalVariable"), Chars("GlobalConstant"),
      Chars("LiteralConstant"), Chars("TypedConstant"), Chars("Call") }

UnexpectedAccess(e) ==
    /\ e.tag = "Access"
    /\ \/ Attr(e, "Scope", <<>>) \notin KnownScopes
       \/ /\ Attr(e, "Scope", <<>>) \in {Chars("LiteralConstant"), Chars("TypedConstant")}
          /\ FirstTagged(Descendants(e), {"ConstantValue"}) = NoElem

\* An element tree with the Access nodes of an unexpected shape taken out.
RECURSIVE WithoutUnexpected(_)
WithoutUnexpected(e) ==
    [e EXCEPT !.children =
        join([k \in DOMAIN e.children |->
                IF UnexpectedAccess(e.children[k]) THEN <<>>
                ELSE <<WithoutUnexpected(e.children[k])>>])]

\* The document an extractor returns for a parsed document.
ExtractedBy(by, root) ==
    IF by = "xml_to_json" THEN xml_to_json(root) ELSE patched_xml_to_json(root)

\* C12: the code xml->canonical extracts is the code it extracts from the same
\* document with every Access of an unexpected shape taken out.
C12_UnexpectedAccessIgnored ==
    (AfterXmlToCanonical /\ pc = "json") =>
        json_data.code = ExtractedBy(entry, XmlParse(WithoutUnexpected(xml_doc))).doc.code

\* The block kinds of a data block.
DataBlockKinds == {Chars("GlobalDB"), Chars("InstanceDB")}

\* The canonical document was produced from a data block: by text->canonical
\* with that block type detected, or by xml->canonical from a data-block element.
FromDataBlock ==
    /\ pc = "json"
    /\ \/ /\ entry = "convert_scl_to_json"
          /\ Get(json_data.metadata, "blockType", <<>>) \in DataBlockKinds
       \/ /\ entry \in XmlEntries
          /\ FirstTagged(Descendants(xml_doc),
                         {"SW.Blocks.GlobalDB", "SW.Blocks.InstanceDB"}) # NoElem

\* C13: a canonical document produced by text->canonical or xml->canonical
\* for a data block has an empty code list.
C13_DataBlockNoCode == FromDataBlock => json_data.code = <<>>

\* The nested members of a member of a canonical document.
NestedMembers(member) ==
    IF "members" \in DOMAIN member THEN member.members ELSE <<>>

\* A member and every member nested in it has a non-empty nested member list
\* if and only if its datatype is Struct.
RECURSIVE StructOwnsMembers(_)
StructOwnsMembers(member) ==
    /\ (NestedMembers(member) # <<>>) <=> (member.datatype = Chars("Struct"))
    /\ \A k \in DOMAIN NestedMembers(member) : StructOwnsMembers(NestedMembers(member)[k])

\* The canonical document was produced by text->canonical or xml->canonical.
FromConverter ==
    pc = "json" /\ entry \in {"convert_scl_to_json"} \cup XmlEntries

\* C14: in a canonical document produced by text->canonical or xml->canonical a
\* member has nested members if and only if its datatype is Struct.
C14_StructIffMembers ==
    FromConverter =>
        \A s \in DOMAIN json_data.sections :
            \A k \in DOMAIN json_data.sections[s] :
                StructOwnsMembers(json_data.sections[s][k])

\* The block element of a document of a supported kind, and the kind the
\* element name stands for.
BlockElement(doc) == FirstTagged(Descendants(doc), SupportedBlocks)

BlockKindOf(tag) ==
    IF tag = "SW.Blocks.FB" THEN Chars("FB")
    ELSE IF tag = "SW.Blocks.FC" THEN Chars("FC")
    ELSE IF tag = "SW.Blocks.OB" THEN Chars("OB")
    ELSE Chars("GlobalDB")

\* C15: xml->canonical records the kind of the block element as
\* metadata.blockType, and canonical->xml applied to its document writes a
\* block element of the kind the source had.
C15_BlockKindKept ==
    /\ (AfterXmlToCanonical /\ pc = "json" /\ BlockElement(xml_doc) # NoElem) =>
          Get(json_data.metadata, "blockType", None) = BlockKindOf(BlockElement(xml_doc).tag)
    /\ (/\ source.kind = "xml"
        /\ BlockElement(source.xml) # NoElem
        /\ conversions = 2
        /\ JsonToXmlRan) =>
          BlockElement(xml_doc).tag = BlockElement(source.xml).tag

\* The header keyword of a block kind.
KindKeyword(kind) ==
    IF kind = Chars("FB") THEN Chars("FUNCTION_BLOCK")
    ELSE IF kind = Chars("FC") THEN Chars("FUNCTION")
    ELSE IF kind = Chars("OB") THEN Chars("ORGANIZATION_BLOCK")
    ELSE Chars("DATA_BLOCK")

\* canonical->text has written scl_text from json_data, a document of a
\* stated block kind.
JsonToSclRan ==
    /\ pc = "scl"
    /\ entry = "convert_json_to_scl"
    /\ Get(json_data.metadata, "blockType", <<>>)
         \in {Chars("FB"), Chars("FC"), Chars("OB"), Chars("GlobalDB")}

\* C16: the text canonical->text writes opens with the header keyword of the
\* document's block kind and closes with its END_ keyword, and text->canonical
\* detects that block kind in it.
C16_BlockKindText ==
    JsonToSclRan =>
        /\ startswith(scl_text, KindKeyword(json_data.metadata.blockType) \o Chars(" \""))
        /\ endswith(scl_text, Chars("END_") \o KindKeyword(json_data.metadata.blockType))
        /\ Get(scl_to_json(scl_text).metadata, "blockType", <<>>)
             = json_data.metadata.blockType

\* The Section element of a sequence of Section elements that carries an XML
\* section name.
GeneratedSection(section_elements, name) ==
    LET P(k) == Attr(section_elements[k], "Name", <<>>) = Chars(name)
    IN IF \E k \in DOMAIN section_elements : P(k)
       THEN section_elements[CHOOSE k \in DOMAIN section_elements : P(k)]
       ELSE NoElem

\* members are written as the Section element given: one Member per member,
\* in order.
MembersWritten(members, section) ==
    /\ section # NoElem
    /\ Len(section.children) = Len(members)
    /\ \A k \in DOMAIN members :
          /\ section.children[k].tag = "Member"
          /\ Attr(section.children[k], "Name", <<>>) = members[k].name

\* Every section of the document that holds members is written among the
\* Section elements given.
SectionsWritten(section_elements) ==
    \A k \in DOMAIN SixSections :
        Bind(Get(json_data.sections, Chars(SectionOrder(Chars("FB"))[k][1]), <<>>),
             LAMBDA members :
               members # <<>> =>
                 Bind(GeneratedSection(section_elements, SectionOrder(Chars("FB"))[k][2]),
                      LAMBDA section : MembersWritten(members, section)))

\* C17: whatever the block kind of the document, canonical->xml writes one
\* Section element for every section of the document that holds members, and
\* in it one Member element for each of those members.
C17_PopulatedSectionsWritten ==
    JsonToXmlRan => Bind(GeneratedSections, LAMBDA section_elements :
                           SectionsWritten(section_elements))

\* The UIds start, start+1, ... of a document with n UIds.
ConsecutiveFrom(start, n) == [k \in 1..n |-> start + k - 1]

\* C18: whatever the interleaving of two concurrent generations on the shared
\* generator, the document each caller gets back carries the UIds 21, 22, ...
\* in order: pairwise distinct, consecutive, as if the caller had run alone.
C18_CallScopedCounter ==
    \A c \in DOMAIN callers :
        callers[c].pc = "done" =>
            callers[c].uids = ConsecutiveFrom(UidStart, UIdsNeeded(callers[c].code_lines))

\* create_session has found the limit reached and is about to clean up.
CreateAtLimit(t) == tasks[t].pc = "cleanup" /\ tasks[t].cleanup_for = "create"

\* create_session has returned a session or raised RuntimeError.
CreateCompleted(t) == tasks[t].pc = "idle" /\ tasks[t].outcome \in {"created", "RuntimeError"}

\* C19: a create_session that finds max_sessions sessions registered always
\* completes, with the new session or with RuntimeError; it is never left
\* waiting for the manager's lock for ever.
C19_CreateSessionCompletes ==
    \A t \in Clients : CreateAtLimit(t) ~> CreateCompleted(t)

(***************************************************************************)
(* Properties of the lexer and of StructuredText generation                *)
(***************************************************************************)

\* The UId attributes of an element tree in document order.
RECURSIVE UIdsOf(_)
UIdsOf(e) ==
    (IF "UId" \in DOMAIN e.attrs THEN <<e.attrs["UId"]>> ELSE <<>>)
        \o join([k \in DOMAIN e.children |-> UIdsOf(e.children[k])])

\* The names of the Component children of the Symbol of an Access element.
ComponentNames(access) ==
    LET symbol == FirstTagged(access.children, {"Symbol"})
        comps == SelectSeq(symbol.children, LAMBDA c : c.tag = "Component")
    IN [k \in DOMAIN comps |-> Attr(comps[k], "Name", <<>>)]

\* A line that holds tokens, all of a kind the token model has (no UNKNOWN token).
RepresentableLine(ln) ==
    /\ tokenize_scl_line(ln) # <<>>
    /\ \A k \in DOMAIN tokenize_scl_line(ln) : tokenize_scl_line(ln)[k].type # "UNKNOWN"

\* The text a token list stands for: every token's text in order, a whitespace
\* token expanded to a run of its recorded length.
TokensText(toks) ==
    join([k \in DOMAIN toks |->
            IF toks[k].type = "WHITESPACE" THEN Spaces(StrToInt(toks[k].value))
            ELSE toks[k].value])

Generated == pc \in {"generated", "extracted"}

\* C1: for every code body of representable tokens, generating the
\* StructuredText and extracting it again yields the same list of lines,
\* character for character (leading indentation included).
C1_RoundTrip ==
    (pc = "extracted" /\ \A k \in DOMAIN code_lines : RepresentableLine(code_lines[k]))
        => extracted = code_lines

\* C2: the line #tag.field is emitted as one Access node with Scope=LocalVariable
\* whose Symbol holds the Component chain [tag, field], and is extracted again as
\* exactly #tag.field.
C2_ScopeFidelity ==
    (Generated /\ code_lines = <<Chars("#tag.field")>>)
        => /\ Len(structured_text.children) = 1
           /\ structured_text.children[1].tag = "Access"
           /\ Attr(structured_text.children[1], "Scope", <<>>) = Chars("LocalVariable")
           /\ ComponentNames(XmlParse(structured_text.children[1]))
                = <<Chars("tag"), Chars("field")>>
           /\ (pc = "extracted" => extracted = <<Chars("#tag.field")>>)

\* C3: in every StructuredText produced by one generation, the UId values are
\* pairwise distinct and, in document order, are start, start+1, start+2, ...
\* from the configured start value 21, whatever the code lines are and however
\* many generations ran before on the same generator.
C3_ConsecutiveUIds ==
    Generated =>
        LET u == UIdsOf(structured_text)
        IN /\ \A k \in DOMAIN u : u[k] = IntToStr(UidStart + k - 1)
           /\ \A j, k \in DOMAIN u : j # k => u[j] # u[k]

\* C3 witness: a second generation on the same generator that emitted nested
\* Access nodes and a NewLine.
C3_Witness ==
    /\ pc = "generated"
    /\ generations = 2
    /\ Len(code_lines) = 2
    /\ Len(UIdsOf(structured_text)) >= 8

\* C7: the double-quoted global constant reference "gc_Max" is emitted as an
\* Access node with Scope=GlobalConstant and is reconstructed with its quotes
\* and without the local # prefix.
C7_GlobalConstant ==
    (Generated /\ code_lines = <<Chars("\"gc_Max\"")>>)
        => /\ Len(structured_text.children) = 1
           /\ structured_text.children[1].tag = "Access"
           /\ Attr(structured_text.children[1], "Scope", <<>>) = Chars("GlobalConstant")
           /\ (pc = "extracted" =>
                 /\ extracted = <<Chars("\"gc_Max\"")>>
                 /\ ~startswith(extracted[1], Hash))

\* C8: concatenating the text of the tokens tokenize_scl_line returns reproduces
\* the whole input line, leading and trailing whitespace included.
C8_TokensCoverLine == pc = "lexed" => TokensText(tokens) = line

\* A text without its whitespace.
WithoutWhitespace(s) == SelectSeq(s, LAMBDA c : ~isspace(c))

\* C21: the reflow changes layout only: the lines returned for a line, joined
\* and stripped of whitespace, are the line stripped of whitespace, and a line
\* returned as a single line is returned unchanged.
C21_ReflowKeepsContent ==
    pc = "reflowed" =>
        /\ WithoutWhitespace(join(extracted)) = WithoutWhitespace(line)
        /\ Len(extracted) = 1 => extracted = <<line>>

\* The sections of the interface in a parsed document, and the names of the
\* direct members of a section that carry a name and a datatype.
XmlSectionsOf(root) ==
    Bind(FirstTagged(Descendants(root), {"Sections"}),
         LAMBDA sections :
           IF sections = NoElem THEN <<>>
           ELSE SelectSeq(sections.children, LAMBDA e : e.tag = "Section"))

DirectMemberNames(section) ==
    Bind(SelectSeq(section.children,
                   LAMBDA e : e.tag = "Member" /\ {"Name", "Datatype"} \subseteq DOMAIN e.attrs),
         LAMBDA members : [k \in DOMAIN members |-> members[k].attrs["Name"]])

\* The keys an extractor files a section under: the mapped name, or for a
\* name outside the mapping its lower case with or without "_section".
SectionKeys(section_name) ==
    { section_mapping(section_name, lower(section_name)),
      section_mapping(section_name, lower(section_name) \o Chars("_section")) }

CanonicalMemberNames(doc, key) ==
    Bind(doc.sections[key],
         LAMBDA members : [k \in DOMAIN members |-> members[k].name])

\* C25: after xml->canonical of a block by either extractor every section of
\* the document holds exactly one member per direct Member child of the XML section, in
\* document order.
C25_OneObjectPerMember ==
    (AfterXmlToCanonical /\ pc = "json" /\ ExtractedBy(entry, XmlParse(xml_doc)).returned
        /\ PatchedBlock(XmlParse(xml_doc)) # NoElem) =>
        Bind(XmlSectionsOf(XmlParse(xml_doc)),
             LAMBDA xml_sections :
               \A k \in DOMAIN xml_sections :
                  Bind(SectionKeys(Attr(xml_sections[k], "Name", <<>>))
                           \cap DOMAIN json_data.sections,
                       LAMBDA keys :
                         /\ keys # {}
                         /\ \A key \in keys :
                              CanonicalMemberNames(json_data, key)
                                  = DirectMemberNames(xml_sections[k])))

\* The same for patched_xml_to_json alone, which reads the sections once.
PatchedOneObjectPerMember == entry = "convert_xml_to_json" => C25_OneObjectPerMember

\* Lines without their indentation.
Unindented(lines) == [k \in DOMAIN lines |-> strip(lines[k])]

\* The statement lines of an emitted text: the lines after BEGIN and the empty
\* line that follows it, up to the empty line before the end marker.
EmittedStatements(text) ==
    Bind(split(text, "\n"),
         LAMBDA lines :
           Bind(CHOOSE k \in DOMAIN lines : lines[k] = Chars("BEGIN")
                                            /\ \A j \in 1..(k - 1) : lines[j] # Chars("BEGIN"),
                LAMBDA begin : SubSeq(lines, begin + 2, Len(lines) - 2)))

\* C26: canonical->text writes the code lines of the document unchanged apart
\* from indentation, none added, removed or rewritten, and text->canonical of
\* the emitted text returns the same lines up to indentation.
C26_CodeLinesUnchanged ==
    (entry = "convert_json_to_scl" /\ pc = "scl" /\ json_data.code # <<>>) =>
        /\ Unindented(EmittedStatements(scl_text)) = Unindented(json_data.code)
        /\ Unindented(scl_to_json(scl_text).code) = Unindented(json_data.code)

\* The ArrayBounds elements of a written type, and those of the member with a
\* name.
ArrayBoundsOf(root) == SelectSeq(Descendants(root), LAMBDA e : e.tag = "ArrayBounds")

ArrayBoundsOfMember(root, name) ==
    Bind(SelectSeq(Descendants(root),
                   LAMBDA e : e.tag = "Member" /\ Attr(e, "Name", <<>>) = name),
         LAMBDA members :
           join([k \in DOMAIN members |->
                   SelectSeq(members[k].children, LAMBDA e : e.tag = "ArrayBounds")]))

\* One Dimension with the bounds of the declaration.
OneDimension(array_bounds, array) ==
    /\ Len(array_bounds.children) = 1
    /\ array_bounds.children[1].tag = "Dimension"
    /\ Attr(array_bounds.children[1], "Lower", <<>>) = array.lower
    /\ Attr(array_bounds.children[1], "Upper", <<>>) = array.upper

ArrayDeclaration(array) ==
    array.name \o Chars(" : Array[") \o array.lower \o Chars("..") \o array.upper
        \o Chars("] of ") \o array.base

\* C27: for a member declared as Array[l..u] of T udt_to_xml writes an
\* ArrayBounds with one Dimension Lower=l Upper=u, no ArrayBounds it writes is
\* empty, and xml_to_udt writes the declaration Array[l..u] of T again.
C27_ArrayBoundsKept ==
    /\ pc \in {"udt_xml", "udt_text"} =>
          /\ \A k \in DOMAIN ArrayBoundsOf(xml_doc) : ArrayBoundsOf(xml_doc)[k].children # <<>>
          /\ \A array \in source.arrays :
                Bind(ArrayBoundsOfMember(xml_doc, array.name),
                     LAMBDA found : Len(found) = 1 /\ OneDimension(found[1], array))
    /\ pc = "udt_text" =>
          \A array \in source.arrays : Contains(scl_text, ArrayDeclaration(array))

\* The members a text declares with the depth of the STRUCT each stands in:
\* a line "name : ..." below the first STRUCT line, one level deeper after
\* every line that opens a STRUCT and one level up after every END_STRUCT.
DeclaredName(ln) ==
    Bind(RunEnd(ln, 1, isword),
         LAMBDA n :
           IF n > 1 /\ RunEnd(ln, n, isspace) <= Len(ln) /\ ln[RunEnd(ln, n, isspace)] = ":"
           THEN SubSeq(ln, 1, n - 1) ELSE <<>>)

OpensStruct(ln) ==
    ln = Chars("STRUCT") \/ (DeclaredName(ln) # <<>> /\ Contains(ln, Chars(": STRUCT")))

StructDepth(lines, k) ==
    Cardinality({j \in 1..(k - 1) : OpensStruct(lines[j])})
        - Cardinality({j \in 1..(k - 1) : startswith(lines[j], Chars("END_STRUCT"))})

DeclaredMembers(text) ==
    Bind(Unindented(split(text, "\n")),
         LAMBDA lines :
           join([k \in DOMAIN lines |->
                   IF DeclaredName(lines[k]) # <<>> /\ StructDepth(lines, k) > 0
                   THEN << <<DeclaredName(lines[k]), StructDepth(lines, k)>> >>
                   ELSE <<>>]))

\* C28: udt_to_xml followed by xml_to_udt yields every declared member once
\* and at the nesting level it was declared at.
C28_NestingKept ==
    pc = "udt_text" => DeclaredMembers(scl_text) = DeclaredMembers(source.text)

\* The declarations "name : datatype := default;" among the lines of a text.
DeclaredDefault(ln) ==
    [name |-> strip(SubSeq(ln, 1, find(ln, <<":">>) - 1)),
     datatype |-> strip(SubSeq(ln, find(ln, <<":">>) + 1, find(ln, Chars(":=")) - 1)),
     default_value |-> strip(SubSeq(ln, find(ln, Chars(":=")) + 2, Len(ln) - 1))]

DeclaredDefaults(text) ==
    Bind(Unindented(split(text, "\n")),
         LAMBDA lines :
           { DeclaredDefault(lines[k]) :
               k \in { j \in DOMAIN lines :
                         /\ endswith(lines[j], <<";">>)
                         /\ find(lines[j], <<":">>) > 1
                         /\ find(lines[j], Chars(":=")) > find(lines[j], <<":">>) } })

\* The members of all sections of a canonical document.
SectionMembersOf(doc) == UNION { Range(doc.sections[key]) : key \in DOMAIN doc.sections }

\* C29: text->canonical of "name : datatype := default;" yields a member with
\* the datatype text alone and the default as its default value, and
\* canonical->xml writes no default into a Datatype attribute.
C29_DefaultApartFromDatatype ==
    /\ (entry = "convert_scl_to_json" /\ pc = "json") =>
          \A declared \in DeclaredDefaults(scl_text) :
             \E m \in SectionMembersOf(json_data) :
                /\ m.name = declared.name
                /\ m.datatype = declared.datatype
                /\ Get(m, "default_value", <<>>) = declared.default_value
    /\ (entry = "convert_json_to_xml" /\ pc = "xml") =>
          \A e \in Range(Descendants(XmlParse(xml_doc))) :
             e.tag = "Member" => ~Contains(Attr(e, "Datatype", <<>>), Chars(":="))

\* C30: tokenize_scl_line terminates: an iteration of the scan loop started at
\* any index of the scanned line ends at a greater index, at most one past the
\* end of the line, so the loop runs at most once per character.
C30_ScanAdvances ==
    Bind(ScannedLine(line),
         LAMBDA ln :
           /\ \A i \in DOMAIN ln : ScanStep(ln, i).next \in (i + 1)..(Len(ln) + 1)
           /\ pc = "lexed" => Len(tokens) <= Len(ln))

\* A line was scanned whose tokens come from the white-space, operator,
\* constant and identifier branches, another from the unknown-character branch.
TokenTypes == { tokens[k].type : k \in DOMAIN tokens }

C30_Witness ==
    /\ pc = "lexed"
    /\ {"WHITESPACE", "OPERATOR", "CONSTANT", "VARIABLE", "KEYWORD"} \subseteq TokenTypes
    /\ Len(tokens) >= 9

C30_WitnessUnknown == pc = "lexed" /\ "UNKNOWN" \in TokenTypes /\ Len(tokens) = 3

\* The text of a node with all of its levels in document order: a local access
\* starts with "#", the first component of a global symbol stands in double
\* quotes, a component is followed by the text of its index, a parameter is
\* its name followed by the text of its value nodes.
RECURSIVE DocumentText(_)
DocumentTexts(elems) == join([k \in DOMAIN elems |-> DocumentText(elems[k])])

DocumentText(e) ==
    LET scope == Attr(e, "Scope", <<>>)
    IN
    IF e.tag \in {"Token"} THEN Attr(e, "Text", <<>>)
    ELSE IF e.tag = "ConstantValue" THEN e.text
    ELSE IF e.tag = "Constant" /\ "Name" \in DOMAIN e.attrs
    THEN Quote \o e.attrs["Name"] \o Quote
    ELSE IF e.tag \in {"Component", "Parameter"}
    THEN Attr(e, "Name", <<>>) \o DocumentTexts(e.children)
    ELSE IF e.tag \in {"Access", "Instance"} /\ scope = Chars("LocalVariable")
    THEN <<"#">> \o DocumentTexts(e.children)
    ELSE IF e.tag = "Instance"
    THEN Quote \o DocumentTexts(e.children) \o Quote
    ELSE IF e.tag = "Symbol"
    THEN DocumentTexts(e.children)
    ELSE IF e.tag = "Access" /\ scope \in {Chars("GlobalVariable"), Chars("GlobalConstant")}
            /\ FirstTagged(e.children, {"Symbol"}) # NoElem
    THEN LET components == FirstTagged(e.children, {"Symbol"}).children
         IN Quote \o Attr(components[1], "Name", <<>>) \o Quote
                \o DocumentTexts(components[1].children)
                \o DocumentTexts(Tail(components))
    ELSE DocumentTexts(e.children)

\* The statement handed to the extractor and the access it starts with.
ExtractedStatement == pc = "extracted" /\ structured_text.tag = "StructuredText"

StatementAccess == structured_text.children[1]

StatementScope == Attr(StatementAccess, "Scope", <<>>)

ExtractedAsWritten ==
    WithoutWhitespace(join(extracted))
        = WithoutWhitespace(DocumentTexts(structured_text.children))

\* C22: a Call access is extracted as the callee and its parameters in
\* document order, each parameter as its name followed by the text of its value
\* nodes; a parameter value that is itself a Call is reconstructed, not dropped.
C22_CallParametersKept ==
    (ExtractedStatement /\ StatementScope = Chars("Call")) => ExtractedAsWritten

\* C23: a LocalVariable access with index accesses nested to any depth is
\* extracted with every level in document order, whatever scope an index has.
C23_NestedIndicesKept ==
    (ExtractedStatement /\ StatementScope = Chars("LocalVariable")) => ExtractedAsWritten

\* C24: a global access is extracted as its first component in double quotes,
\* the closing quote directly after the name also when the component has an
\* index, then the remaining symbol children; a named constant in double quotes.
C24_GlobalFirstComponentQuoted ==
    (ExtractedStatement
        /\ StatementScope \in {Chars("GlobalVariable"), Chars("GlobalConstant")})
    => ExtractedAsWritten

\* The identifiers of a line without quoted literals: the maximal runs of
\* letters, digits and underscores that start with a letter or an underscore,
\* are not preceded by # and are not the T of a time literal T#...
IdentifierRuns(ln) ==
    { SubSeq(ln, i, j) : <<i, j>> \in
        { r \in (DOMAIN ln) \X (DOMAIN ln) :
            /\ r[1] <= r[2]
            /\ \A k \in r[1]..r[2] : IsIdentChar(ln[k])
            /\ isalpha(ln[r[1]]) \/ ln[r[1]] = "_"
            /\ r[1] = 1 \/ (~IsIdentChar(ln[r[1] - 1]) /\ ln[r[1] - 1] # "#")
            /\ r[2] = Len(ln) \/ (~IsIdentChar(ln[r[2] + 1]) /\ ln[r[2] + 1] # "#") } }

Unquoted(ln) == \A k \in DOMAIN ln : ln[k] \notin {"\"", "'"}

\* C20: an identifier of a code line is never split: one token carries the
\* whole run (keywords in upper case), also when the identifier begins with
\* the letters of a word operator such as TO or OR.
C20_IdentifierWhole ==
    (pc = "lexed" /\ Unquoted(line)) =>
        \A identifier \in IdentifierRuns(line) :
            \E k \in DOMAIN tokens : tokens[k].value \in {identifier, upper(identifier)}

\* C9: tokenize_scl_line returns at least one token for every non-empty line,
\* whatever its characters (whitespace only, unrecognised, unterminated quotes).
C9_NonEmptyTokens == (pc = "lexed" /\ line # <<>>) => tokens # <<>>

====
